---- MODULE Spec2Model ----
(***************************************************************************)
(* Model of the change-tracked dataset synchronisation engine of           *)
(* solid-client-js (src/resource/solidDataset.ts, src/resource/resource.ts).*)
(*                                                                         *)
(* Strings that the code inspects (URLs) are sequences of tokens, so that  *)
(* endsWith("/") and concatenation are computed and not assumed.  An IRI   *)
(* is a document URL plus a hash; the relative IRI "#name" has the empty   *)
(* document.  Datasets live in a heap of objects so that cloning, in-place *)
(* mutation and object identity are visible.                               *)
(***************************************************************************)
EXTENDS Naturals, Integers, Sequences, FiniteSets, TLC

\* ------------------------------------------------------------------ bounds
MaxObj == 4
MaxQuads == 2
MaxLog == 2
MaxSaves == 3

\* ------------------------------------------------------------ basic values
Null == [null |-> TRUE]
Free == [free |-> TRUE]

Origin == <<"https://x">>
DocUrl == <<"https://x", "/", "doc">>
OtherUrl == <<"https://x", "/", "other">>
ContainerUrl == <<"https://x", "/", "c", "/">>
ChildUrl == <<"https://x", "/", "c", "/", "child">>

\* String.prototype.endsWith("/")
endsWithSlash(url) == Len(url) > 0 /\ url[Len(url)] = "/"

\* ------------------------------------------------------------------- nodes
LocalNode(name) == [termType |-> "LocalNode", doc |-> <<>>, value |-> name]
NamedNode(doc, hash) == [termType |-> "NamedNode", doc |-> doc, value |-> hash]
Literal(v) == [termType |-> "Literal", doc |-> <<>>, value |-> v]

isLocalNode(n) == n.termType = "LocalNode"
isNamedNode(n) == n.termType = "NamedNode"

Quad(s, p, o) == [subject |-> s, predicate |-> p, object |-> o]

Title == NamedNode(<<"https://vocab">>, "title")

\* the triples application code and the store draw from
QuadUniverse ==
    { Quad(NamedNode(DocUrl, "t"), Title, Literal("A")),
      Quad(LocalNode("n"), Title, LocalNode("m")) }

\* ------------------------------------------------ Local Identity Space
\* datatypes.ts resolveLocalIri: new URL(resourceIri) with hash := name
resolveIriForLocalNode(localNode, resourceIri) ==
    NamedNode(resourceIri, localNode.value)

\* datatypes.ts resolveIriForLocalNodes
resolveIriForLocalNodes(quad, resourceIri) ==
    [quad EXCEPT
       !.subject = IF isLocalNode(quad.subject)
                   THEN resolveIriForLocalNode(quad.subject, resourceIri)
                   ELSE quad.subject,
       !.object = IF isLocalNode(quad.object)
                  THEN resolveIriForLocalNode(quad.object, resourceIri)
                  ELSE quad.object]

getNamedNodeFromLocalNode(localNode) == NamedNode(<<>>, localNode.value)

getNamedNodesForLocalNodes(quad) ==
    [quad EXCEPT
       !.subject = IF isLocalNode(quad.subject)
                   THEN getNamedNodeFromLocalNode(quad.subject)
                   ELSE quad.subject,
       !.object = IF isLocalNode(quad.object)
                  THEN getNamedNodeFromLocalNode(quad.object)
                  ELSE quad.object]

\* ----------------------------------------------------------- sequences
Range(s) == { s[i] : i \in DOMAIN s }

RECURSIVE SeqWithout(_, _)
SeqWithout(s, x) ==
    IF s = <<>> THEN <<>>
    ELSE IF Head(s) = x THEN SeqWithout(Tail(s), x)
    ELSE <<Head(s)>> \o SeqWithout(Tail(s), x)

\* ------------------------------------------------------------ datasets
EmptyLog == [additions |-> <<>>, deletions |-> <<>>]

\* createSolidDataset: no Resource Metadata, no Change Log
EmptyDataset == [quads |-> {}, info |-> Null, log |-> Null]

hasResourceInfo(d) == d.info # Null
hasChangelog(d) == d.log # Null
getSourceUrl(d) == d.info.sourceIri

Ids == 1 .. MaxObj

EmptyHeap == [i \in Ids |-> Free]

\* the next unused object
Alloc(h) == CHOOSE i \in Ids : h[i] = Free /\ \A j \in Ids : h[j] = Free => i <= j

Ref(h, r) == [heap |-> h, ref |-> r]

\* resource.internal.ts internal_cloneResource: a new object, same properties
internal_cloneResource(h, id) ==
    LET n == Alloc(h) IN Ref([h EXCEPT ![n] = h[id]], n)

\* dataset(): a new empty object
NewDataset(h, d) ==
    LET n == Alloc(h) IN Ref([h EXCEPT ![n] = d], n)

\* thing.internal.ts internal_withChangeLog: begin tracking unless tracked
internal_withChangeLog(h, id) ==
    IF hasChangelog(h[id]) THEN Ref(h, id)
    ELSE LET c == internal_cloneResource(h, id)
         IN Ref([c.heap EXCEPT ![c.ref].log = EmptyLog], c.ref)

\* --------------------------------------------------------------- HTTP
NoHeader == "<null>"
NoLocation == <<"<null>">>

\* status line of a response: the status and its text
StatusLines == { <<200, "OK">>, <<304, "Not Modified">>, <<403, "Forbidden">> }

ContentTypes ==
    { NoHeader, "text/turtle", "text/turtle; charset=UTF-8", "image/png" }

\* a Link header: its references in order, each a target and a relation
NoLink == <<>>
LinkRef(uri, rel) == [uri |-> uri, rel |-> rel]

Response(line, url, contentType, location, body) ==
    [status |-> line[1], statusText |-> line[2], url |-> url,
     contentType |-> contentType, location |-> location, body |-> body,
     link |-> NoLink]

\* the same response with a Link header
Linked(response, link) == [response EXCEPT !.link = link]

\* Response.ok
ok(response) == response.status >= 200 /\ response.status <= 299

\* resource.internal.ts internal_isUnsuccessfulResponse
internal_isUnsuccessfulResponse(response) == ~ok(response)

\* ------------------------------------------------------ URL resolution
isAbsoluteUrl(ref) == Len(ref) > 0 /\ ref[1] = Origin[1]

\* URL.origin
origin(url) == <<url[1]>>

\* the directory of a base URL: everything up to its last "/"
RECURSIVE DirOf(_)
DirOf(base) ==
    IF Len(base) <= 1 THEN base \o <<"/">>
    ELSE IF base[Len(base)] = "/" THEN base
    ELSE DirOf(SubSeq(base, 1, Len(base) - 1))

\* new URL(ref, base).href
URL(ref, base) ==
    IF isAbsoluteUrl(ref) THEN ref
    ELSE IF Len(ref) > 0 /\ ref[1] = "/" THEN origin(base) \o ref
    ELSE DirOf(base) \o ref

\* String.prototype.split(";") on the content types a response declares
split(contentType) ==
    IF contentType = "text/turtle; charset=UTF-8"
    THEN <<"text/turtle", " charset=UTF-8">>
    ELSE <<contentType>>

\* the targets of the references with the given relation, in order, each
\* resolved against the base
RECURSIVE LinkTargets(_, _, _)
LinkTargets(link, rel, base) ==
    IF link = <<>> THEN <<>>
    ELSE (IF Head(link).rel = rel THEN <<URL(Head(link).uri, base)>> ELSE <<>>)
            \o LinkTargets(Tail(link), rel, base)

\* resource.internal.ts internal_parseResourceInfo
internal_parseResourceInfo(response) ==
    LET contentTypeParts == IF response.contentType = NoHeader THEN <<>>
                            ELSE split(response.contentType)
        isSolidDataset == /\ Len(contentTypeParts) > 0
                          /\ contentTypeParts[1] \in {"text/turtle", "application/ld+json"}
        rels == { response.link[i].rel : i \in DOMAIN response.link }
    IN [sourceIri |-> response.url,
        isRawData |-> ~isSolidDataset,
        contentType |-> response.contentType,
        linkedResources |->
            [rel \in rels |-> LinkTargets(response.link, rel, response.url)]]

\* class FetchError extends SolidClientError
FetchError(message, errorResponse) ==
    [name |-> "FetchError", message |-> message, response |-> errorResponse]

Error(message) == [name |-> "Error", message |-> message, response |-> Null]

statusCode(e) == e.response.status
statusText(e) == e.response.statusText

Message(text, url, response, diagnostics) ==
    [text |-> text, url |-> url,
     status |-> IF response = Null THEN 0 ELSE response.status,
     statusText |-> IF response = Null THEN "" ELSE response.statusText,
     diagnostics |-> diagnostics]

Request(method, url, headers, body) ==
    [method |-> method, url |-> url, headers |-> headers, body |-> body]

Headers(accept, contentType, ifNoneMatch, link, slug) ==
    [accept |-> accept, contentType |-> contentType,
     ifNoneMatch |-> ifNoneMatch, link |-> link, slug |-> slug]

NoHeaders == Headers(NoHeader, NoHeader, NoHeader, NoHeader, NoHeader)

\* formats/turtle.ts triplesToTurtle: the statements of the document
triplesToTurtle(triples) == [format |-> "text/turtle", statements |-> triples]

\* formats/turtle.ts turtleToTriples: relative IRIs are resolved against base
turtleToTriples(data, base) ==
    LET abs(n) == IF isNamedNode(n) /\ n.doc = <<>>
                  THEN NamedNode(base, n.value) ELSE n
    IN { [q EXCEPT !.subject = abs(q.subject), !.object = abs(q.object)] :
           q \in data.statements }

\* the outcome of an operation: the heap it leaves, the requests it issued,
\* and the value it resolves to (ref) or the error it rejects with
Outcome(h, requests, error, ref) ==
    [heap |-> h, requests |-> requests, ok |-> (error = Null),
     error |-> error, ref |-> ref]

\* -------------------------------------------------------- diagnostics
\* thing.internal.ts internal_getReadableValue: IRIs as they are, literals
\* by their lexical form
internal_getReadableValue(value) ==
    [readable |-> value.termType, doc |-> value.doc, text |-> value.value]

RECURSIVE ReadableObjects(_, _, _, _)
ReadableObjects(changes, thing, property, sourceUrl) ==
    IF changes = <<>> THEN <<>>
    ELSE LET change == Head(changes)
             subjectNode == IF isLocalNode(change.subject)
                            THEN resolveIriForLocalNode(change.subject, sourceUrl)
                            ELSE change.subject
             rest == ReadableObjects(Tail(changes), thing, property, sourceUrl)
         IN IF subjectNode = thing /\ change.predicate = property
            THEN <<internal_getReadableValue(change.object)>> \o rest
            ELSE rest

\* the subject a change is listed under, for the changes that are listed
ListedSubjects(changes, sourceUrl) ==
    { IF isLocalNode(c.subject)
      THEN resolveIriForLocalNode(c.subject, sourceUrl) ELSE c.subject :
        c \in { x \in Range(changes) :
                  /\ isLocalNode(x.subject) \/ isNamedNode(x.subject)
                  /\ isNamedNode(x.predicate) } }

sortChangeLogByThingAndProperty(d) ==
    LET src == getSourceUrl(d)
        all == d.log.deletions \o d.log.additions
        things == ListedSubjects(all, src)
        props(t) == { c.predicate :
                        c \in { x \in Range(all) :
                                  /\ isNamedNode(x.predicate)
                                  /\ t = (IF isLocalNode(x.subject)
                                          THEN resolveIriForLocalNode(x.subject, src)
                                          ELSE x.subject) } }
    IN [t \in things |->
         [p \in props(t) |->
            [added |-> ReadableObjects(d.log.additions, t, p, src),
             deleted |-> ReadableObjects(d.log.deletions, t, p, src)]]]

NoChanges == [t \in {} |-> Null]

changeLogAsMarkdown(d) ==
    IF ~hasResourceInfo(d)
    THEN [rendering |-> "changeLog", heading |-> "newly initialized",
          source |-> <<>>, changes |-> NoChanges]
    ELSE IF ~hasChangelog(d)
            \/ (Len(d.log.additions) = 0 /\ Len(d.log.deletions) = 0)
    THEN [rendering |-> "changeLog", heading |-> "not modified",
          source |-> getSourceUrl(d), changes |-> NoChanges]
    ELSE [rendering |-> "changeLog", heading |-> "Changes compared to",
          source |-> getSourceUrl(d),
          changes |-> sortChangeLogByThingAndProperty(d)]

\* the number of entries of changes whose subject is the given one
RECURSIVE CountSubject(_, _)
CountSubject(changes, subject) ==
    IF changes = <<>> THEN 0
    ELSE (IF Head(changes).subject = subject THEN 1 ELSE 0)
         + CountSubject(Tail(changes), subject)

getReadableChangeLogSummary(d, subject) ==
    [additions |-> CountSubject(d.log.additions, subject),
     deletions |-> CountSubject(d.log.deletions, subject)]

\* thing.ts thingAsMarkdown: the thing's properties and their readable values
thingAsMarkdown(d, subject) ==
    { [property |-> q.predicate, value |-> internal_getReadableValue(q.object)] :
        q \in { x \in d.quads : x.subject = subject } }

solidDatasetAsMarkdown(d) ==
    LET things == { q.subject : q \in d.quads }
    IN [rendering |-> "solidDataset",
        heading |-> IF hasResourceInfo(d) THEN "SolidDataset" ELSE "no URL yet",
        source |-> IF hasResourceInfo(d) THEN getSourceUrl(d) ELSE <<>>,
        changes |-> [t \in things |->
                      [thing |-> thingAsMarkdown(d, t),
                       summary |-> IF hasChangelog(d)
                                   THEN getReadableChangeLogSummary(d, t)
                                   ELSE Null]]]

\* ------------------------------------------------------------ requests
RECURSIVE MapNamed(_)
MapNamed(s) ==
    IF s = <<>> THEN <<>>
    ELSE <<getNamedNodesForLocalNodes(Head(s))>> \o MapNamed(Tail(s))

Clause(keyword, triples) ==
    [keyword |-> keyword, data |-> triplesToTurtle(Range(MapNamed(triples)))]

prepareSolidDatasetUpdate_insertFirst(d) ==
    LET deleteStatement == IF Len(d.log.deletions) > 0
                           THEN <<Clause("DELETE DATA", d.log.deletions)>>
                           ELSE <<>>
        insertStatement == IF Len(d.log.additions) > 0
                           THEN <<Clause("INSERT DATA", d.log.additions)>>
                           ELSE <<>>
    IN [method |-> "PATCH",
        body |-> [format |-> "application/sparql-update",
                  statements |-> insertStatement \o deleteStatement],
        headers |-> Headers(NoHeader, "application/sparql-update", NoHeader,
                            NoHeader, NoHeader)]

prepareSolidDatasetUpdate_createOnly(d) ==
    LET deleteStatement == IF Len(d.log.deletions) > 0
                           THEN <<Clause("DELETE DATA", d.log.deletions)>>
                           ELSE <<>>
        insertStatement == IF Len(d.log.additions) > 0
                           THEN <<Clause("INSERT DATA", d.log.additions)>>
                           ELSE <<>>
    IN [method |-> "PATCH",
        body |-> [format |-> "application/sparql-update",
                  statements |-> deleteStatement \o insertStatement],
        headers |-> Headers(NoHeader, "application/sparql-update", "*",
                            NoHeader, NoHeader)]

prepareSolidDatasetUpdate_insertOnly(d) ==
    LET insertStatement == IF Len(d.log.additions) > 0
                           THEN <<Clause("INSERT DATA", d.log.additions)>>
                           ELSE <<>>
    IN [method |-> "PATCH",
        body |-> [format |-> "application/sparql-update",
                  statements |-> insertStatement],
        headers |-> Headers(NoHeader, "application/sparql-update", NoHeader,
                            NoHeader, NoHeader)]

prepareSolidDatasetUpdate(d) ==
    LET deleteStatement == IF Len(d.log.deletions) > 0
                           THEN <<Clause("DELETE DATA", d.log.deletions)>>
                           ELSE <<>>
        insertStatement == IF Len(d.log.additions) > 0
                           THEN <<Clause("INSERT DATA", d.log.additions)>>
                           ELSE <<>>
    IN [method |-> "PATCH",
        body |-> [format |-> "application/sparql-update",
                  statements |-> deleteStatement \o insertStatement],
        headers |-> Headers(NoHeader, "application/sparql-update", NoHeader,
                            NoHeader, NoHeader)]

prepareSolidDatasetCreation_changesOnly(d) ==
    [method |-> "PUT",
     body |-> triplesToTurtle({ getNamedNodesForLocalNodes(q) :
                                  q \in Range(d.log.additions) }),
     headers |-> Headers(NoHeader, "text/turtle", "*", "ldp:Resource", NoHeader)]

prepareSolidDatasetCreation(d) ==
    [method |-> "PUT",
     body |-> triplesToTurtle({ getNamedNodesForLocalNodes(q) : q \in d.quads }),
     headers |-> Headers(NoHeader, "text/turtle", "*", "ldp:Resource", NoHeader)]

isUpdate_anyLocation(d, url) ==
    /\ hasChangelog(d)
    /\ hasResourceInfo(d)

isUpdate(d, url) ==
    /\ hasChangelog(d)
    /\ hasResourceInfo(d)
    /\ d.info.sourceIri = url

resolveLocalIrisInSolidDataset_keepUnresolved(h, id) ==
    LET resourceIri == getSourceUrl(h[id])
    IN [h EXCEPT ![id].quads =
          @ \cup { resolveIriForLocalNodes(q, resourceIri) : q \in h[id].quads }]

resolveLocalIrisInSolidDataset_oneNodePerQuad(h, id) ==
    LET resourceIri == getSourceUrl(h[id])
        one(q) == IF isLocalNode(q.subject)
                  THEN [q EXCEPT !.subject = resolveIriForLocalNode(q.subject, resourceIri)]
                  ELSE resolveIriForLocalNodes(q, resourceIri)
    IN [h EXCEPT ![id].quads = { one(q) : q \in h[id].quads }]

resolveLocalIrisInSolidDataset_rebaseAll(h, id) ==
    LET resourceIri == getSourceUrl(h[id])
        rebase(n) == IF isLocalNode(n) \/ isNamedNode(n)
                     THEN NamedNode(resourceIri, n.value) ELSE n
    IN [h EXCEPT ![id].quads =
          { [q EXCEPT !.subject = rebase(q.subject), !.object = rebase(q.object)] :
              q \in h[id].quads }]

\* rewrites the quads of the object itself
resolveLocalIrisInSolidDataset(h, id) ==
    LET resourceIri == getSourceUrl(h[id])
    IN [h EXCEPT ![id].quads =
          { resolveIriForLocalNodes(q, resourceIri) : q \in h[id].quads }]

\* saveSolidDatasetAt: the request for the dataset as it is tracked
saveRequestInit(d, url) ==
    IF isUpdate(d, url)
    THEN prepareSolidDatasetUpdate(d)
    ELSE prepareSolidDatasetCreation(d)

\* saveSolidDatasetAt: the rendering of what was sent, for the error message
saveDiagnostics_alwaysDataset(d, url) == solidDatasetAsMarkdown(d)

saveDiagnostics(d, url) ==
    IF isUpdate(d, url)
    THEN changeLogAsMarkdown(d)
    ELSE solidDatasetAsMarkdown(d)

\* saveSolidDatasetAt: the metadata of the stored dataset
saveResourceInfo_asParsed(response, url) == internal_parseResourceInfo(response)

saveResourceInfo(response, url) ==
    [internal_parseResourceInfo(response) EXCEPT
       !.sourceIri = url, !.isRawData = FALSE]

\* saveSolidDatasetAt: the stored dataset, a clone with a fresh Change Log
storedDataset_keepLog(h, id, resourceInfo) ==
    LET c == internal_cloneResource(h, id)
    IN Ref([c.heap EXCEPT ![c.ref].info = resourceInfo], c.ref)

storedDataset_inPlace(h, id, resourceInfo) ==
    Ref([h EXCEPT ![id].log = EmptyLog, ![id].info = resourceInfo], id)

storedDataset_empty(h, id, resourceInfo) ==
    NewDataset(h, [quads |-> {}, info |-> resourceInfo, log |-> EmptyLog])

storedDataset(h, id, resourceInfo) ==
    LET c == internal_cloneResource(h, id)
    IN Ref([c.heap EXCEPT ![c.ref].log = EmptyLog, ![c.ref].info = resourceInfo],
           c.ref)

saveSolidDatasetAt(h, url, id, response) ==
    LET w == internal_withChangeLog(h, id)
        d == w.heap[w.ref]
        requestInit == saveRequestInit(d, url)
        request == Request(requestInit.method, url, requestInit.headers,
                           requestInit.body)
    IN IF internal_isUnsuccessfulResponse(response)
       THEN Outcome(w.heap, <<request>>,
                    FetchError(Message("Storing the Resource failed", url,
                                       response, saveDiagnostics(d, url)),
                               response),
                    0)
       ELSE LET stored == storedDataset(w.heap, w.ref,
                                        saveResourceInfo(response, url))
            IN Outcome(resolveLocalIrisInSolidDataset(stored.heap, stored.ref),
                       <<request>>, Null, stored.ref)

\* ------------------------------------------------------------- fetching
getSolidDataset_tracked(h, url, response) ==
    LET request == Request("GET", url,
                           Headers("text/turtle", NoHeader, NoHeader, NoHeader,
                                   NoHeader), Null)
    IN IF internal_isUnsuccessfulResponse(response)
       THEN Outcome(h, <<request>>,
                    FetchError(Message("Fetching the Resource failed", url,
                                       response, Null), response), 0)
       ELSE LET triples == turtleToTriples(response.body, url)
                resource == NewDataset(h, [quads |-> triples,
                                           info |-> internal_parseResourceInfo(response),
                                           log |-> EmptyLog])
            IN Outcome(resource.heap, <<request>>, Null, resource.ref)

getSolidDataset(h, url, response) ==
    LET request == Request("GET", url,
                           Headers("text/turtle", NoHeader, NoHeader, NoHeader,
                                   NoHeader), Null)
    IN IF internal_isUnsuccessfulResponse(response)
       THEN Outcome(h, <<request>>,
                    FetchError(Message("Fetching the Resource failed", url,
                                       response, Null), response), 0)
       ELSE LET triples == turtleToTriples(response.body, url)
                resource == NewDataset(h, [quads |-> triples,
                                           info |-> internal_parseResourceInfo(response),
                                           log |-> Null])
            IN Outcome(resource.heap, <<request>>, Null, resource.ref)

\* resolves to the metadata alone, which is no dataset: info, not ref
getResourceInfo_get(url, response) ==
    LET request == Request("GET", url, NoHeaders, Null)
    IN IF internal_isUnsuccessfulResponse(response)
       THEN [requests |-> <<request>>, ok |-> FALSE,
             error |-> FetchError(Message("Fetching the metadata of the Resource failed",
                                          url, response, Null), response),
             info |-> Null]
       ELSE [requests |-> <<request>>, ok |-> TRUE, error |-> Null,
             info |-> internal_parseResourceInfo(response)]

getResourceInfo_requested(url, response) ==
    LET request == Request("HEAD", url, NoHeaders, Null)
    IN IF internal_isUnsuccessfulResponse(response)
       THEN [requests |-> <<request>>, ok |-> FALSE,
             error |-> FetchError(Message("Fetching the metadata of the Resource failed",
                                          url, response, Null), response),
             info |-> Null]
       ELSE [requests |-> <<request>>, ok |-> TRUE, error |-> Null,
             info |-> internal_parseResourceInfo([response EXCEPT !.url = url])]

getResourceInfo_asDataset(url, response) ==
    LET request == Request("HEAD", url, NoHeaders, Null)
    IN IF internal_isUnsuccessfulResponse(response)
       THEN [requests |-> <<request>>, ok |-> FALSE,
             error |-> FetchError(Message("Fetching the metadata of the Resource failed",
                                          url, response, Null), response),
             info |-> Null]
       ELSE [requests |-> <<request>>, ok |-> TRUE, error |-> Null,
             info |-> [internal_parseResourceInfo(response) EXCEPT
                         !.isRawData = FALSE]]

getResourceInfo(url, response) ==
    LET request == Request("HEAD", url, NoHeaders, Null)
    IN IF internal_isUnsuccessfulResponse(response)
       THEN [requests |-> <<request>>, ok |-> FALSE,
             error |-> FetchError(Message("Fetching the metadata of the Resource failed",
                                          url, response, Null), response),
             info |-> Null]
       ELSE [requests |-> <<request>>, ok |-> TRUE, error |-> Null,
             info |-> internal_parseResourceInfo(response)]

\* interfaces.ts hasServerResourceInfo: metadata that came from a response
hasServerResourceInfo(resource) ==
    /\ hasResourceInfo(resource)
    /\ "linkedResources" \in DOMAIN resource.info

isRawData(resource) == resource.info.isRawData

\* the Content Type, null if not known
getContentType(resource) ==
    IF resource.info.contentType = NoHeader THEN Null
    ELSE resource.info.contentType

podOwnerRelation == "http://www.w3.org/ns/solid/terms#podOwner"

getPodOwner_first(resource) ==
    IF ~hasServerResourceInfo(resource) THEN Null
    ELSE LET podOwners ==
               IF podOwnerRelation \in DOMAIN resource.info.linkedResources
               THEN resource.info.linkedResources[podOwnerRelation]
               ELSE <<>>
         IN IF Len(podOwners) >= 1 THEN podOwners[1] ELSE Null

getPodOwner(resource) ==
    IF ~hasServerResourceInfo(resource) THEN Null
    ELSE LET podOwners ==
               IF podOwnerRelation \in DOMAIN resource.info.linkedResources
               THEN resource.info.linkedResources[podOwnerRelation]
               ELSE <<>>
         IN IF Len(podOwners) = 1 THEN podOwners[1] ELSE Null

\* a value of type boolean | null that is a boolean
Boolean(b) == [boolean |-> b]

isPodOwner(webId, resource) ==
    LET podOwner == getPodOwner(resource)
    IN IF podOwner = Null THEN Null ELSE Boolean(podOwner = webId)

\* an argument of type Url | UrlString | WithResourceInfo
UrlArg(url) == [resource |-> Null, url |-> url]
ResourceArg(d) == [resource |-> d, url |-> <<>>]

argHasResourceInfo(a) == a.resource # Null /\ hasResourceInfo(a.resource)

argUrl(a) == IF argHasResourceInfo(a) THEN getSourceUrl(a.resource) ELSE a.url

isContainer_always(resource) == TRUE

isContainer(resource) ==
    LET containerUrl == IF argHasResourceInfo(resource)
                        THEN getSourceUrl(resource.resource)
                        ELSE resource.url
    IN endsWithSlash(containerUrl)

deleteSolidDataset_unchecked(h, solidDataset, response) ==
    Outcome(h, <<Request("DELETE", argUrl(solidDataset), NoHeaders, Null)>>,
            Null, 0)

deleteSolidDataset(h, solidDataset, response) ==
    LET url == argUrl(solidDataset)
        request == Request("DELETE", url, NoHeaders, Null)
    IN IF internal_isUnsuccessfulResponse(response)
       THEN Outcome(h, <<request>>,
                    FetchError(Message("Deleting the SolidDataset failed", url,
                                       response, Null), response), 0)
       ELSE Outcome(h, <<request>>, Null, 0)

deleteContainer(h, container, response) ==
    LET url == argUrl(container)
        request == Request("DELETE", url, NoHeaders, Null)
    IN IF ~isContainer(container)
       THEN Outcome(h, <<>>,
                    Error(Message("Container URLs should end in a /", url,
                                  Null, Null)), 0)
       ELSE IF internal_isUnsuccessfulResponse(response)
       THEN Outcome(h, <<request>>,
                    FetchError(Message("Deleting the Container failed", url,
                                       response, Null), response), 0)
       ELSE Outcome(h, <<request>>, Null, 0)

\* ------------------------------------------------- saving in a container
saveSolidDatasetInContainer(h, containerUrl, id, slugSuggestion, response) ==
    LET d == h[id]
        rawTurtle == triplesToTurtle({ getNamedNodesForLocalNodes(q) : q \in d.quads })
        request == Request("POST", containerUrl,
                           Headers(NoHeader, "text/turtle", NoHeader,
                                   "ldp:Resource", slugSuggestion), rawTurtle)
        locationHeader == response.location
    IN IF internal_isUnsuccessfulResponse(response)
       THEN Outcome(h, <<request>>,
                    FetchError(Message("Storing the Resource in the Container failed",
                                       containerUrl, response,
                                       solidDatasetAsMarkdown(d)), response), 0)
       ELSE IF locationHeader = NoLocation
       THEN Outcome(h, <<request>>,
                    Error(Message("Could not determine the location of the newly saved SolidDataset",
                                  <<>>, Null, Null)), 0)
       ELSE LET resourceIri == URL(locationHeader, origin(containerUrl))
                resourceInfo == [sourceIri |-> resourceIri, isRawData |-> FALSE,
                                 contentType |-> NoHeader]
                c == internal_cloneResource(h, id)
                withInfo == [c.heap EXCEPT ![c.ref].info = resourceInfo]
            IN Outcome(resolveLocalIrisInSolidDataset(withInfo, c.ref),
                       <<request>>, Null, c.ref)

createContainerInContainer_defaultLocation(h, containerUrl, slugSuggestion, response) ==
    LET request == Request("POST", containerUrl,
                           Headers(NoHeader, "text/turtle", NoHeader,
                                   "ldp:BasicContainer", slugSuggestion), Null)
        locationHeader == IF response.location = NoLocation THEN containerUrl
                          ELSE response.location
    IN IF internal_isUnsuccessfulResponse(response)
       THEN Outcome(h, <<request>>,
                    FetchError(Message("Creating an empty Container in the Container failed",
                                       containerUrl, response, Null), response), 0)
       ELSE LET resourceIri == URL(locationHeader, origin(containerUrl))
                resource == NewDataset(h, [quads |-> {},
                                           info |-> [sourceIri |-> resourceIri,
                                                     isRawData |-> FALSE,
                                                     contentType |-> NoHeader],
                                           log |-> Null])
            IN Outcome(resource.heap, <<request>>, Null, resource.ref)

createContainerInContainer(h, containerUrl, slugSuggestion, response) ==
    LET request == Request("POST", containerUrl,
                           Headers(NoHeader, "text/turtle", NoHeader,
                                   "ldp:BasicContainer", slugSuggestion), Null)
        locationHeader == response.location
    IN IF internal_isUnsuccessfulResponse(response)
       THEN Outcome(h, <<request>>,
                    FetchError(Message("Creating an empty Container in the Container failed",
                                       containerUrl, response, Null), response), 0)
       ELSE IF locationHeader = NoLocation
       THEN Outcome(h, <<request>>,
                    Error(Message("Could not determine the location of the newly created Container",
                                  <<>>, Null, Null)), 0)
       ELSE LET resourceIri == URL(locationHeader, origin(containerUrl))
                resource == NewDataset(h, [quads |-> {},
                                           info |-> [sourceIri |-> resourceIri,
                                                     isRawData |-> FALSE,
                                                     contentType |-> NoHeader],
                                           log |-> Null])
            IN Outcome(resource.heap, <<request>>, Null, resource.ref)

\* --------------------------------------------------- creating a container
asContainerUrl_asGiven(url) == url

\* url.endsWith("/") ? url : url + "/"
asContainerUrl(url) == IF endsWithSlash(url) THEN url ELSE url \o <<"/">>

internal_NSS_CREATE_CONTAINER_SPEC_NONCOMPLIANCE_DETECTION_ERROR_MESSAGE_TO_WORKAROUND_THEIR_ISSUE_1465 ==
    "Can't write file: PUT not supported on containers, use POST instead"

\* a response text is a sequence of tokens; these are its white space
Whitespace == { " ", "\n" }

RECURSIVE trimStart(_)
trimStart(text) ==
    IF text # <<>> /\ Head(text) \in Whitespace THEN trimStart(Tail(text))
    ELSE text

RECURSIVE trimEnd(_)
trimEnd(text) ==
    IF text # <<>> /\ text[Len(text)] \in Whitespace
    THEN trimEnd(SubSeq(text, 1, Len(text) - 1))
    ELSE text

\* String.prototype.trim
trim(text) == trimEnd(trimStart(text))

\* the outcome of an operation that issues several requests, with the
\* responses it came to read
Answered(h, requests, answers, error, ref) ==
    [heap |-> h, requests |-> requests, ok |-> (error = Null),
     error |-> error, ref |-> ref, answers |-> answers]

isNssSignature_anyConflict(response) ==
    /\ response.status = 409
    /\ trim(response.body) =
         <<internal_NSS_CREATE_CONTAINER_SPEC_NONCOMPLIANCE_DETECTION_ERROR_MESSAGE_TO_WORKAROUND_THEIR_ISSUE_1465>>

\* createContainerAt: the response that asks for the workaround
isNssSignature(response) ==
    /\ response.status = 409
    /\ response.statusText = "Conflict"
    /\ trim(response.body) =
         <<internal_NSS_CREATE_CONTAINER_SPEC_NONCOMPLIANCE_DETECTION_ERROR_MESSAGE_TO_WORKAROUND_THEIR_ISSUE_1465>>

containerDataset_untracked(h, response) ==
    NewDataset(h, [quads |-> {}, info |-> internal_parseResourceInfo(response),
                   log |-> Null])

\* Object.assign(dataset(), { internal_changeLog, internal_resourceInfo })
containerDataset(h, response) ==
    NewDataset(h, [quads |-> {}, info |-> internal_parseResourceInfo(response),
                   log |-> EmptyLog])

createContainerWithNssWorkaroundAt_anyFailure(h, url, responses) ==
    LET existingContainer == getResourceInfo(url, responses[1])
        dummyUrl == url \o <<".dummy">>
        createRequest == Request("PUT", dummyUrl,
                                 Headers("text/turtle", "text/turtle", NoHeader,
                                         NoHeader, NoHeader), Null)
        createResponse == responses[2]
        deleteRequest == Request("DELETE", dummyUrl, NoHeaders, Null)
        infoRequest == Request("HEAD", url, NoHeaders, Null)
        containerInfoResponse == responses[4]
    IN IF existingContainer.ok
       THEN Answered(h, existingContainer.requests, SubSeq(responses, 1, 1),
                     Error(Message("The Container already exists, and therefore cannot be created again",
                                   url, Null, Null)), 0)
       ELSE IF internal_isUnsuccessfulResponse(createResponse)
       THEN Answered(h, existingContainer.requests \o <<createRequest>>,
                     SubSeq(responses, 1, 2),
                     FetchError(Message("Creating the empty Container failed",
                                        url, createResponse, Null),
                                createResponse), 0)
       ELSE LET c == containerDataset(h, containerInfoResponse)
            IN Answered(c.heap,
                        existingContainer.requests
                           \o <<createRequest, deleteRequest, infoRequest>>,
                        responses, Null, c.ref)

\* responses: to the HEAD that probes the container, to the PUT of the dummy
\* file, to its DELETE and to the final HEAD, in this order
createContainerWithNssWorkaroundAt_readFirst(h, url, responses) ==
    LET existingContainer == getResourceInfo(url, responses[1])
        dummyUrl == url \o <<".dummy">>
        createRequest == Request("PUT", dummyUrl,
                                 Headers("text/turtle", "text/turtle", NoHeader,
                                         NoHeader, NoHeader), Null)
        createResponse == responses[2]
        deleteRequest == Request("DELETE", dummyUrl, NoHeaders, Null)
        infoRequest == Request("HEAD", url, NoHeaders, Null)
        containerInfoResponse == responses[4]
    IN IF ~existingContainer.ok /\ statusCode(existingContainer.error) # 404
       THEN Answered(h, existingContainer.requests, SubSeq(responses, 1, 1),
                     existingContainer.error, 0)
       ELSE IF existingContainer.ok
       THEN Answered(h, existingContainer.requests, SubSeq(responses, 1, 1),
                     Error(Message("The Container already exists, and therefore cannot be created again",
                                   url, Null, Null)), 0)
       ELSE IF internal_isUnsuccessfulResponse(createResponse)
       THEN Answered(h, existingContainer.requests \o <<createRequest>>,
                     SubSeq(responses, 1, 2),
                     FetchError(Message("Creating the empty Container failed",
                                        url, createResponse, Null),
                                createResponse), 0)
       ELSE LET c == containerDataset(h, containerInfoResponse)
            IN Answered(c.heap,
                        existingContainer.requests
                           \o <<createRequest, infoRequest, deleteRequest>>,
                        <<responses[1], responses[2], responses[4], responses[3]>>,
                        Null, c.ref)

createContainerWithNssWorkaroundAt(h, url, responses) ==
    LET existingContainer == getResourceInfo(url, responses[1])
        dummyUrl == url \o <<".dummy">>
        createRequest == Request("PUT", dummyUrl,
                                 Headers("text/turtle", "text/turtle", NoHeader,
                                         NoHeader, NoHeader), Null)
        createResponse == responses[2]
        deleteRequest == Request("DELETE", dummyUrl, NoHeaders, Null)
        infoRequest == Request("HEAD", url, NoHeaders, Null)
        containerInfoResponse == responses[4]
    IN IF ~existingContainer.ok /\ statusCode(existingContainer.error) # 404
       THEN Answered(h, existingContainer.requests, SubSeq(responses, 1, 1),
                     existingContainer.error, 0)
       ELSE IF existingContainer.ok
       THEN Answered(h, existingContainer.requests, SubSeq(responses, 1, 1),
                     Error(Message("The Container already exists, and therefore cannot be created again",
                                   url, Null, Null)), 0)
       ELSE IF internal_isUnsuccessfulResponse(createResponse)
       THEN Answered(h, existingContainer.requests \o <<createRequest>>,
                     SubSeq(responses, 1, 2),
                     FetchError(Message("Creating the empty Container failed",
                                        url, createResponse, Null),
                                createResponse), 0)
       ELSE LET c == containerDataset(h, containerInfoResponse)
            IN Answered(c.heap,
                        existingContainer.requests
                           \o <<createRequest, deleteRequest, infoRequest>>,
                        responses, Null, c.ref)

\* responses: to the PUT of the container, then those of the workaround
createContainerAt(h, givenUrl, responses) ==
    LET url == asContainerUrl(givenUrl)
        request == Request("PUT", url,
                           Headers("text/turtle", "text/turtle", "*",
                                   "ldp:BasicContainer", NoHeader), Null)
        response == responses[1]
    IN IF internal_isUnsuccessfulResponse(response)
       THEN IF isNssSignature(response)
            THEN LET w == createContainerWithNssWorkaroundAt(h, url, Tail(responses))
                 IN Answered(w.heap, <<request>> \o w.requests,
                             <<response>> \o w.answers, w.error, w.ref)
            ELSE Answered(h, <<request>>, <<response>>,
                          FetchError(Message("Creating the empty Container failed",
                                             url, response, Null), response), 0)
       ELSE LET c == containerDataset(h, response)
            IN Answered(c.heap, <<request>>, <<response>>, Null, c.ref)

\* ------------------------------------------------------------ Change Log
recordAdd_appendOnly(h, id, quad) ==
    LET w == internal_withChangeLog(h, id)
        c == internal_cloneResource(w.heap, w.ref)
    IN Ref([c.heap EXCEPT ![c.ref].quads = @ \cup {quad},
                          ![c.ref].log.additions = Append(@, quad)],
           c.ref)

\* record-add: the triple joins the dataset; re-adding a recorded deletion
\* cancels it, anything else is a recorded addition
recordAdd(h, id, quad) ==
    LET w == internal_withChangeLog(h, id)
        c == internal_cloneResource(w.heap, w.ref)
        log == c.heap[c.ref].log
        newLog == IF quad \in Range(log.deletions)
                  THEN [log EXCEPT !.deletions = SeqWithout(log.deletions, quad)]
                  ELSE [log EXCEPT !.additions = Append(log.additions, quad)]
    IN Ref([c.heap EXCEPT ![c.ref].quads = @ \cup {quad}, ![c.ref].log = newLog],
           c.ref)

recordRemove_appendOnly(h, id, quad) ==
    LET w == internal_withChangeLog(h, id)
        c == internal_cloneResource(w.heap, w.ref)
    IN Ref([c.heap EXCEPT ![c.ref].quads = @ \ {quad},
                          ![c.ref].log.deletions = Append(@, quad)],
           c.ref)

\* record-remove: the triple leaves the dataset; removing a recorded addition
\* cancels it, anything else is a recorded deletion
recordRemove(h, id, quad) ==
    LET w == internal_withChangeLog(h, id)
        c == internal_cloneResource(w.heap, w.ref)
        log == c.heap[c.ref].log
        newLog == IF quad \in Range(log.additions)
                  THEN [log EXCEPT !.additions = SeqWithout(log.additions, quad)]
                  ELSE [log EXCEPT !.deletions = Append(log.deletions, quad)]
    IN Ref([c.heap EXCEPT ![c.ref].quads = @ \ {quad}, ![c.ref].log = newLog],
           c.ref)

\* ---------------------------------------------------------------- state
VARIABLES
    heap,     \* the dataset objects that exist, by identity
    cur,      \* the dataset the application holds
    lastOp,   \* the operation that ran last: its inputs, requests and outcome
    pending,  \* the tracked mutations made since the last successful fetch or save
    store,    \* the triples the remote store holds at DocUrl
    clients   \* two applications working on DocUrl, each with its own graph

vars == <<heap, cur, lastOp, pending, store, clients>>

\* what the operations of one application leave alone
remote == <<store, clients>>

Keep(h, ids) == [i \in Ids |-> IF i \in ids THEN h[i] ELSE Free]

\* Objects the application no longer holds are collected and the survivors
\* compacted: the operation's input becomes object 1, a distinct result 2.
Compact(h, input, ref) ==
    [i \in Ids |-> IF i = 1 /\ input # 0 THEN h[input]
                   ELSE IF i = 2 /\ ref # 0 /\ ref # input THEN h[ref]
                   ELSE Free]

CompactRef(input, ref) == IF ref = 0 THEN 0 ELSE IF ref = input THEN 1 ELSE 2

\* the record of an operation on the held dataset (input 0: none)
Op(name, url, input, r, response, info) ==
    [op |-> name, url |-> url,
     input |-> IF input = 0 THEN 0 ELSE 1,
     before |-> IF input = 0 THEN Null ELSE heap[input],
     requests |-> r.requests, response |-> response, ok |-> r.ok,
     error |-> r.error, ref |-> CompactRef(input, r.ref), info |-> info,
     pendingBefore |-> pending,
     answers |-> IF "answers" \in DOMAIN r THEN r.answers
                 ELSE IF r.requests = <<>> \/ response = Null THEN <<>>
                 ELSE <<response>>]

Done(ref) == [requests |-> <<>>, ok |-> TRUE, error |-> Null, ref |-> ref]

Change(kind, quad) == [kind |-> kind, quad |-> quad]

LogSize(d) == IF hasChangelog(d) THEN Len(d.log.additions) + Len(d.log.deletions)
              ELSE 0

\* responses a store can give
Successes == { line \in StatusLines : line[1] \in 200 .. 299 }

\* WebIDs, and the Link headers a store sends: a relative target, the owner
\* of the Pod, the owner as a relative target next to another relation, and
\* two owners
OwnerWebId == Origin \o <<"/", "profile#me">>
OtherWebId == Origin \o <<"/", "profile#other">>
WebIds == { OwnerWebId, OtherWebId }

Links ==
    { <<LinkRef(<<"doc.acl">>, "acl")>>,
      <<LinkRef(OwnerWebId, podOwnerRelation)>>,
      <<LinkRef(<<"doc.acl">>, "acl"), LinkRef(<<"profile#me">>, podOwnerRelation)>>,
      <<LinkRef(OwnerWebId, podOwnerRelation),
        LinkRef(OtherWebId, podOwnerRelation)>> }

\* a response without a body: any status; a success may come from another
\* URL than the one requested (a redirect) and declare any content type
PlainResponses(url) ==
    { Response(line, url, NoHeader, NoLocation, Null) : line \in StatusLines }
    \cup { Response(line, u, ct, NoLocation, Null) :
             line \in Successes, u \in {url, OtherUrl}, ct \in ContentTypes }
    \cup { Linked(Response(<<200, "OK">>, u, "text/turtle", NoLocation, Null), link) :
             u \in {url, OtherUrl}, link \in Links }

SaveResponses(url) ==
    { Response(line, url, NoHeader, NoLocation, Null) : line \in StatusLines }
    \cup { Response(line, OtherUrl, NoHeader, NoLocation, Null) : line \in Successes }

DeleteResponses(url) ==
    { Response(line, url, NoHeader, NoLocation, Null) : line \in StatusLines }

FetchBodies ==
    { triplesToTurtle({}),
      triplesToTurtle({Quad(NamedNode(<<>>, "t"), Title, Literal("A"))}) }

FetchResponses(url) ==
    { Response(line, url, NoHeader, NoLocation, Null) :
        line \in StatusLines \ Successes }
    \cup { Response(line, u, "text/turtle", NoLocation, body) :
             line \in Successes, u \in {url, OtherUrl}, body \in FetchBodies }

Locations == { NoLocation, ChildUrl, <<"child">> }

PostResponses(url) ==
    { Response(line, url, NoHeader, NoLocation, Null) :
        line \in StatusLines \ Successes }
    \cup { Response(line, url, NoHeader, loc, Null) :
             line \in Successes, loc \in Locations }

SlugSuggestions == { NoHeader, "child" }

\* the locations datasets are fetched from and saved at
DocUrls == {DocUrl, OtherUrl}

Clients == { 1, 2 }

Subject(hash) == NamedNode(DocUrl, hash)

\* what the store holds at DocUrl to begin with
Stored ==
    { Quad(Subject("t"), Title, Literal("A")),
      Quad(Subject("u"), Title, Literal("A")) }

\* the values an application replaces a stored triple by
Replacements(c) ==
    { Quad(Subject("t"), Title, Literal(IF c = 1 THEN "B" ELSE "C")),
      Quad(LocalNode("n"), Title, LocalNode("m")) }

Init ==
    /\ heap = [EmptyHeap EXCEPT ![2] = EmptyDataset]
    /\ cur = 2
    /\ pending = {}
    /\ lastOp = [op |-> "createSolidDataset", url |-> <<>>, input |-> 0,
                 before |-> Null, requests |-> <<>>, response |-> Null,
                 ok |-> TRUE, error |-> Null, ref |-> 2, info |-> Null,
                 pendingBefore |-> {}, answers |-> <<>>]
    /\ store = Stored
    /\ clients = [c \in Clients |-> [graph |-> Null, saved |-> Null]]

\* an operation on the held dataset settles: the application goes on with
\* the dataset it resolved to, or with the one it held when it rejected
Settle(name, url, r, response, synced) ==
    /\ heap' = Compact(r.heap, cur, r.ref)
    /\ cur' = IF r.ok /\ r.ref # 0 THEN CompactRef(cur, r.ref) ELSE 1
    /\ pending' = IF r.ok /\ synced THEN {} ELSE pending
    /\ lastOp' = Op(name, url, cur, r, response, Null)
    /\ UNCHANGED remote

\* Every action is a conjunction: TLC then evaluates the choice of an action's
\* inputs in the state it acts on, with values of its own for each state.
CreateSolidDataset ==
    /\ LET r == NewDataset(EmptyHeap, EmptyDataset)
       IN /\ lastOp.op # "createSolidDataset"
          /\ heap' = Compact(r.heap, 0, r.ref)
          /\ cur' = 2
          /\ pending' = {}
          /\ lastOp' = Op("createSolidDataset", <<>>, 0, Done(r.ref), Null, Null)
          /\ UNCHANGED remote

RecordAdd ==
    /\ \E quad \in QuadUniverse \ heap[cur].quads :
           LET r == recordAdd(Keep(heap, {cur}), cur, quad)
           IN /\ Cardinality(heap[cur].quads) < MaxQuads
              /\ LogSize(heap[cur]) < MaxLog
              /\ heap' = Compact(r.heap, cur, r.ref)
              /\ cur' = CompactRef(cur, r.ref)
              /\ pending' = IF Change("deletion", quad) \in pending
                            THEN pending \ {Change("deletion", quad)}
                            ELSE pending \cup {Change("addition", quad)}
              /\ lastOp' = Op("recordAdd", <<>>, cur, Done(r.ref), Null, Null)
              /\ UNCHANGED remote

RecordRemove ==
    /\ \E quad \in heap[cur].quads :
           LET r == recordRemove(Keep(heap, {cur}), cur, quad)
           IN /\ LogSize(heap[cur]) < MaxLog
              /\ heap' = Compact(r.heap, cur, r.ref)
              /\ cur' = CompactRef(cur, r.ref)
              /\ pending' = IF Change("addition", quad) \in pending
                            THEN pending \ {Change("addition", quad)}
                            ELSE pending \cup {Change("deletion", quad)}
              /\ lastOp' = Op("recordRemove", <<>>, cur, Done(r.ref), Null, Null)
              /\ UNCHANGED remote

\* an operation that changes no dataset settles: the application goes on
\* with the dataset it resolved to, if any, else with the one it holds; arg
\* is the resource it was given, if any
SettleFresh(name, url, r, response, info, arg) ==
    LET fresh == r.ok /\ r.ref # 0
    IN /\ heap' = IF fresh THEN Compact(r.heap, 0, r.ref) ELSE Compact(heap, cur, 0)
       /\ cur' = IF fresh THEN 2 ELSE 1
       /\ pending' = IF fresh THEN {} ELSE pending
       /\ lastOp' = [Op(name, url, 0, r, response, info) EXCEPT !.before = arg]
       /\ UNCHANGED remote

GetSolidDataset ==
    /\ \E url \in {DocUrl} : \E response \in FetchResponses(url) :
           SettleFresh("getSolidDataset", url,
                       getSolidDataset(EmptyHeap, url, response), response, Null,
                       Null)

GetResourceInfo ==
    /\ \E url \in {DocUrl, ContainerUrl} : \E response \in PlainResponses(url) :
           LET r == getResourceInfo(url, response)
           IN SettleFresh("getResourceInfo", url,
                          [requests |-> r.requests, ok |-> r.ok, error |-> r.error,
                           ref |-> 0], response, r.info, Null)

\* the resources an application can ask the owner of: the dataset it holds,
\* or the metadata that getResourceInfo resolved to
OwnerArgs ==
    { heap[cur] }
    \cup (IF lastOp.op = "getResourceInfo" /\ lastOp.info # Null
          THEN { [quads |-> {}, info |-> lastOp.info, log |-> Null] }
          ELSE {})

\* getPodOwner and isPodOwner read a resource and change none: what they
\* returned is recorded with the operation
IsPodOwner ==
    /\ \E webId \in WebIds : \E resource \in OwnerArgs :
           /\ heap' = Compact(heap, cur, 0)
           /\ cur' = 1
           /\ lastOp' = [op |-> "isPodOwner", url |-> webId, input |-> 0,
                         before |-> resource, requests |-> <<>>,
                         response |-> Null, ok |-> TRUE, error |-> Null,
                         ref |-> 0, info |-> Null, pendingBefore |-> pending,
                         answers |-> <<>>,
                         podOwner |-> getPodOwner(resource),
                         result |-> isPodOwner(webId, resource)]
           /\ UNCHANGED <<pending, remote>>

\* where the held dataset can be saved: a document, or where it came from
SaveUrls == DocUrls \cup (IF hasResourceInfo(heap[cur])
                          THEN {getSourceUrl(heap[cur])} ELSE {})

SaveSolidDatasetAt ==
    /\ \E url \in SaveUrls : \E response \in SaveResponses(url) :
           Settle("saveSolidDatasetAt", url,
                  saveSolidDatasetAt(Keep(heap, {cur}), url, cur, response),
                  response, TRUE)

SaveSolidDatasetInContainer ==
    /\ \E response \in PostResponses(ContainerUrl), slug \in SlugSuggestions :
           Settle("saveSolidDatasetInContainer", ContainerUrl,
                  saveSolidDatasetInContainer(Keep(heap, {cur}), ContainerUrl, cur,
                                              slug, response),
                  response, TRUE)

\* the same without a slug suggestion, against a store that names the new
\* resource by its absolute URL
SaveNewInContainer ==
    /\ \E response \in { r \in PostResponses(ContainerUrl) :
                            ok(r) => isAbsoluteUrl(r.location) } :
           Settle("saveSolidDatasetInContainer", ContainerUrl,
                  saveSolidDatasetInContainer(Keep(heap, {cur}), ContainerUrl, cur,
                                              NoHeader, response),
                  response, TRUE)

CreateContainerInContainer ==
    /\ \E response \in PostResponses(ContainerUrl), slug \in SlugSuggestions :
           SettleFresh("createContainerInContainer", ContainerUrl,
                       createContainerInContainer(EmptyHeap, ContainerUrl, slug,
                                                  response),
                       response, Null, Null)

\* the response, if the operation came to issue its request
Answer(r, response) == IF r.requests = <<>> THEN Null ELSE response

\* what a delete operation can be given: a URL, the dataset held, or the
\* metadata that getResourceInfo resolved to
DeleteArgs ==
    { UrlArg(url) : url \in {DocUrl, ContainerUrl} }
    \cup (IF hasResourceInfo(heap[cur]) THEN {ResourceArg(heap[cur])} ELSE {})
    \cup (IF lastOp.info # Null
          THEN {ResourceArg([quads |-> {}, info |-> lastOp.info, log |-> Null])}
          ELSE {})

DeleteSolidDataset ==
    /\ \E arg \in DeleteArgs : \E response \in DeleteResponses(argUrl(arg)) :
           SettleFresh("deleteSolidDataset", argUrl(arg),
                       deleteSolidDataset(EmptyHeap, arg, response), response, Null,
                       arg.resource)

DeleteContainer ==
    /\ \E arg \in DeleteArgs : \E response \in DeleteResponses(argUrl(arg)) :
           LET r == deleteContainer(EmptyHeap, arg, response)
           IN SettleFresh("deleteContainer", argUrl(arg), r, Answer(r, response),
                          Null, arg.resource)

\* a URL a container is created at, with and without its final "/"
ContainerArgs == { ContainerUrl, <<"https://x", "/", "c">> }

NssMessage ==
    <<internal_NSS_CREATE_CONTAINER_SPEC_NONCOMPLIANCE_DETECTION_ERROR_MESSAGE_TO_WORKAROUND_THEIR_ISSUE_1465>>

TextResponse(line, url, text) == Response(line, url, NoHeader, NoLocation, text)

\* the answers to the PUT of a container: success, a refusal, and conflicts
\* with and without the message of the store that needs the workaround
PutContainerResponses(url) ==
    { TextResponse(<<201, "Created">>, url, <<>>),
      TextResponse(<<403, "Forbidden">>, url, <<"Forbidden">>),
      TextResponse(<<409, "Conflict">>, url, NssMessage),
      TextResponse(<<409, "Conflict">>, url, <<" ">> \o NssMessage \o <<"\n">>),
      TextResponse(<<409, "Conflict">>, url, NssMessage \o <<" ", "again">>),
      TextResponse(<<409, "Conflict">>, url, <<>>),
      TextResponse(<<409, "">>, url, NssMessage),
      TextResponse(<<412, "Precondition Failed">>, url, NssMessage) }

ProbeResponses(url) ==
    { TextResponse(<<200, "OK">>, url, <<>>),
      TextResponse(<<403, "Forbidden">>, url, <<>>),
      TextResponse(<<404, "Not Found">>, url, <<>>) }

DummyResponses(url) ==
    { TextResponse(<<201, "Created">>, url, <<>>),
      TextResponse(<<403, "Forbidden">>, url, <<>>) }

ContainerInfoResponses(url) ==
    { Response(<<200, "OK">>, url, "text/turtle", NoLocation, <<>>),
      TextResponse(<<404, "Not Found">>, url, <<>>) }

\* the responses createContainerAt can come to read, in the order it asks
ContainerAnswers(url) ==
    { <<a, b, c, d, e>> :
        a \in PutContainerResponses(url), b \in ProbeResponses(url),
        c \in DummyResponses(url \o <<".dummy">>),
        d \in DummyResponses(url \o <<".dummy">>),
        e \in ContainerInfoResponses(url) }

CreateContainerAt ==
    /\ \E url \in ContainerArgs : \E responses \in ContainerAnswers(asContainerUrl(url)) :
           SettleFresh("createContainerAt", url,
                       createContainerAt(EmptyHeap, url, responses),
                       responses[1], Null, Null)

\* ------------------------------------------------ two applications, one store
\* the triples of the clauses of a patch that have the given keyword
ClauseTriples(body, keyword, url) ==
    UNION { turtleToTriples(body.statements[i].data, url) :
              i \in { j \in DOMAIN body.statements :
                        body.statements[j].keyword = keyword } }

\* A store with optimistic concurrency: it refuses a patch whose deletion
\* clause names a triple it does not hold, and a creation (If-None-Match: *)
\* of what exists.
StoreAnswer(held, request) ==
    IF request.method = "GET"
    THEN Response(<<200, "OK">>, request.url, "text/turtle", NoLocation,
                  triplesToTurtle(held))
    ELSE IF request.method = "PATCH"
    THEN IF ClauseTriples(request.body, "DELETE DATA", request.url) \subseteq held
         THEN Response(<<200, "OK">>, request.url, NoHeader, NoLocation, Null)
         ELSE Response(<<409, "Conflict">>, request.url, NoHeader, NoLocation, Null)
    ELSE IF request.method = "PUT" /\ request.headers.ifNoneMatch = "*"
    THEN Response(<<412, "Precondition Failed">>, request.url, NoHeader,
                  NoLocation, Null)
    ELSE Response(<<200, "OK">>, request.url, NoHeader, NoLocation, Null)

\* what the store holds once it has answered
StoreAfter(held, request) ==
    IF ~ok(StoreAnswer(held, request)) THEN held
    ELSE IF request.method = "PATCH"
    THEN (held \ ClauseTriples(request.body, "DELETE DATA", request.url))
            \cup ClauseTriples(request.body, "INSERT DATA", request.url)
    ELSE IF request.method = "PUT"
    THEN turtleToTriples(request.body, request.url)
    ELSE held

\* a graph alone in a heap, and the graph an operation resolved to
OneHeap(d) == [EmptyHeap EXCEPT ![1] = d]
ValueOf(r) == r.heap[r.ref]

\* stands for the response not yet received: the request of an operation
\* does not depend on it
NotYetAnswered == Response(<<0, "">>, DocUrl, NoHeader, NoLocation, Null)

Working(c) == clients[c].graph # Null /\ clients[c].saved = Null

ClientFetch(c) ==
    LET request == getSolidDataset(EmptyHeap, DocUrl, NotYetAnswered).requests[1]
        r == getSolidDataset(EmptyHeap, DocUrl, StoreAnswer(store, request))
    IN /\ clients[c].graph = Null
       /\ clients' = [clients EXCEPT ![c].graph = ValueOf(r)]
       /\ UNCHANGED <<heap, cur, lastOp, pending, store>>

\* the application starts from a new graph instead of fetching one
ClientCreate(c) ==
    /\ clients[c].graph = Null
    /\ clients' = [clients EXCEPT
                      ![c].graph = ValueOf(NewDataset(EmptyHeap, EmptyDataset))]
    /\ UNCHANGED <<heap, cur, lastOp, pending, store>>

ClientRemove(c) ==
    \E quad \in clients[c].graph.quads :
        /\ LogSize(clients[c].graph) < MaxLog
        /\ clients' = [clients EXCEPT
                         ![c].graph = ValueOf(recordRemove(OneHeap(@), 1, quad))]
        /\ UNCHANGED <<heap, cur, lastOp, pending, store>>

ClientAdd(c) ==
    \E quad \in Replacements(c) \ clients[c].graph.quads :
        /\ LogSize(clients[c].graph) < MaxLog
        /\ clients' = [clients EXCEPT
                         ![c].graph = ValueOf(recordAdd(OneHeap(@), 1, quad))]
        /\ UNCHANGED <<heap, cur, lastOp, pending, store>>

\* the application saves its graph where it fetched it; the store answers
\* the request it is sent
ClientSave(c) ==
    LET h == OneHeap(clients[c].graph)
        request == saveSolidDatasetAt(h, DocUrl, 1, NotYetAnswered).requests[1]
        response == StoreAnswer(store, request)
        r == saveSolidDatasetAt(h, DocUrl, 1, response)
    IN /\ store' = StoreAfter(store, request)
       /\ clients' = [clients EXCEPT
             ![c].saved = [ok |-> r.ok, error |-> r.error, request |-> request,
                           given |-> clients[c].graph, storeBefore |-> store,
                           storeAfter |-> StoreAfter(store, request)],
             ![c].graph = IF r.ok THEN ValueOf(r) ELSE @]
       /\ UNCHANGED <<heap, cur, lastOp, pending>>

Fetch == /\ \E c \in Clients : ClientFetch(c)
Create == /\ \E c \in Clients : ClientCreate(c)
Remove == /\ \E c \in Clients : Working(c) /\ ClientRemove(c)
Add == /\ \E c \in Clients : Working(c) /\ ClientAdd(c)
Save == /\ \E c \in Clients : Working(c) /\ ClientSave(c)

\* two applications fetch, change and save the same resource, in any order
NextStore ==
    \/ Fetch
    \/ Create
    \/ Remove
    \/ Add
    \/ Save

SpecStore == Init /\ [][NextStore]_vars

\* -------------------------------------------------- access control rules
\* A Rule is a Thing: a dataset of the triples about one subject.
acp(name) == NamedNode(<<"http://www.w3.org/ns/solid/acp">>, name)
rdfType == NamedNode(<<"http://www.w3.org/1999/02/22-rdf-syntax-ns">>, "type")

RuleIri == NamedNode(<<"https://x", "/", "rule-resource">>, "a-rule")
WebIdMe == NamedNode(<<"https://x", "/", "profile">>, "me")
WebIdYou == NamedNode(<<"https://x", "/", "profile">>, "you")

\* thing/get.ts getIriAll: the IRIs a Thing has for a property
getIriAll(thing, property) ==
    { q.object : q \in { t \in thing.quads : /\ t.predicate = property
                                              /\ isNamedNode(t.object) } }

\* thing/set.ts setIri: a copy that has the given IRI as the only value
setIri(h, id, property, value) ==
    LET c == internal_cloneResource(h, id)
    IN Ref([c.heap EXCEPT ![c.ref].quads =
              { q \in @ : q.predicate # property }
                 \cup { Quad(RuleIri, property, value) }], c.ref)

\* thing/add.ts addIri: a copy that has the given IRI as a value too
addIri(h, id, property, value) ==
    LET c == internal_cloneResource(h, id)
    IN Ref([c.heap EXCEPT ![c.ref].quads = @ \cup { Quad(RuleIri, property, value) }],
           c.ref)

\* thing/remove.ts removeIri: a copy without the given IRI as a value
removeIri(h, id, property, value) ==
    LET c == internal_cloneResource(h, id)
    IN Ref([c.heap EXCEPT ![c.ref].quads = @ \ { Quad(RuleIri, property, value) }],
           c.ref)

isRule(thing) == acp("Rule") \in getIriAll(thing, rdfType)

createRule(h) ==
    LET ruleThing == NewDataset(h, EmptyDataset)
    IN setIri(ruleThing.heap, ruleThing.ref, rdfType, acp("Rule"))

getAgentAll(rule) ==
    { agent \in getIriAll(rule, acp("agent")) :
        /\ agent # acp("PublicAgent")
        /\ agent # acp("AuthenticatedAgent")
        /\ agent # acp("CreatorAgent") }

addAgent(h, rule, agent) == addIri(h, rule, acp("agent"), agent)

removeAgent(h, rule, agent) == removeIri(h, rule, acp("agent"), agent)

hasPublic(rule) ==
    Cardinality({ agent \in getIriAll(rule, acp("agent")) :
                    agent = acp("PublicAgent") }) > 0

setPublic(h, rule, public) ==
    IF public
    THEN addIri(h, rule, acp("agent"), acp("PublicAgent"))
    ELSE removeIri(h, rule, acp("agent"), acp("PublicAgent"))

hasAuthenticated(rule) ==
    Cardinality({ agent \in getIriAll(rule, acp("agent")) :
                    agent = acp("AuthenticatedAgent") }) > 0

setAuthenticated(h, rule, authenticated) ==
    IF authenticated
    THEN addIri(h, rule, acp("agent"), acp("AuthenticatedAgent"))
    ELSE removeIri(h, rule, acp("agent"), acp("AuthenticatedAgent"))

hasCreator(rule) ==
    Cardinality({ agent \in getIriAll(rule, acp("agent")) :
                    agent = acp("CreatorAgent") }) > 0

setCreator(h, rule, creator) ==
    IF creator
    THEN addIri(h, rule, acp("agent"), acp("CreatorAgent"))
    ELSE removeIri(h, rule, acp("agent"), acp("CreatorAgent"))

setAgent_overwrite(h, rule, agent) == setIri(h, rule, acp("agent"), agent)

setAgent(h, rule, agent) ==
    LET isPublic == hasPublic(h[rule])
        isAuthenticated == hasAuthenticated(h[rule])
        result == setIri(h, rule, acp("agent"), agent)
        withPublic == setPublic(result.heap, result.ref, isPublic)
    IN setAuthenticated(withPublic.heap, withPublic.ref, isAuthenticated)

\* the agents an application names: two WebIDs, and the class of everyone
AgentArgs == { WebIdMe, WebIdYou, acp("PublicAgent") }

\* an operation on the rule held settles: the application goes on with the
\* rule it returned, and the rule it was given is still there
SettleRule(name, arg, r) ==
    /\ heap' = Compact(r.heap, 1, r.ref)
    /\ cur' = 2
    /\ lastOp' = [op |-> name, url |-> <<>>, input |-> 1, before |-> heap[cur],
                  requests |-> <<>>, response |-> Null, ok |-> TRUE,
                  error |-> Null, ref |-> 2, info |-> Null,
                  pendingBefore |-> pending, answers |-> <<>>, arg |-> arg]
    /\ UNCHANGED <<pending, remote>>

\* the heap with the rule held as its only object
RuleHeap == OneHeap(heap[cur])

CreateRule ==
    /\ lastOp.op # "createRule"
    /\ LET r == createRule(EmptyHeap)
       IN /\ heap' = Compact(r.heap, 0, r.ref)
          /\ cur' = 2
          /\ lastOp' = [op |-> "createRule", url |-> <<>>, input |-> 0,
                        before |-> Null, requests |-> <<>>, response |-> Null,
                        ok |-> TRUE, error |-> Null, ref |-> 2, info |-> Null,
                        pendingBefore |-> pending, answers |-> <<>>,
                        arg |-> RuleIri]
    /\ UNCHANGED <<pending, remote>>

AddAgent ==
    /\ \E agent \in AgentArgs :
           /\ isRule(heap[cur])
           /\ SettleRule("addAgent", agent, addAgent(RuleHeap, 1, agent))

RemoveAgent ==
    /\ \E agent \in AgentArgs :
           /\ isRule(heap[cur])
           /\ SettleRule("removeAgent", agent, removeAgent(RuleHeap, 1, agent))

SetAgent ==
    /\ \E agent \in AgentArgs :
           /\ isRule(heap[cur])
           /\ SettleRule("setAgent", agent, setAgent(RuleHeap, 1, agent))

SetPublic ==
    /\ \E public \in BOOLEAN :
           /\ isRule(heap[cur])
           /\ SettleRule("setPublic", Boolean(public), setPublic(RuleHeap, 1, public))

SetAuthenticated ==
    /\ \E authenticated \in BOOLEAN :
           /\ isRule(heap[cur])
           /\ SettleRule("setAuthenticated", Boolean(authenticated),
                         setAuthenticated(RuleHeap, 1, authenticated))

SetCreator ==
    /\ \E creator \in BOOLEAN :
           /\ isRule(heap[cur])
           /\ SettleRule("setCreator", Boolean(creator),
                         setCreator(RuleHeap, 1, creator))

\* rules: created, and the agents they apply to changed
NextRule ==
    \/ CreateRule
    \/ AddAgent
    \/ RemoveAgent
    \/ SetAgent
    \/ SetPublic
    \/ SetAuthenticated
    \/ SetCreator

SpecRule == Init /\ [][NextRule]_vars

\* the engine: datasets are created, fetched, mutated and saved
Next ==
    \/ CreateSolidDataset
    \/ RecordAdd
    \/ RecordRemove
    \/ GetSolidDataset
    \/ SaveSolidDatasetAt
    \/ SaveNewInContainer

Spec == Init /\ [][Next]_vars

\* the operations on resources: every operation that issues a request, on
\* datasets as they are fetched and saved
NextResource ==
    \/ GetSolidDataset
    \/ GetResourceInfo
    \/ IsPodOwner
    \/ SaveSolidDatasetAt
    \/ SaveSolidDatasetInContainer
    \/ CreateContainerInContainer
    \/ DeleteSolidDataset
    \/ DeleteContainer

SpecResource == Init /\ [][NextResource]_vars

\* containers: created, looked up, saved in and deleted
NextContainer ==
    \/ CreateContainerAt
    \/ GetResourceInfo
    \/ SaveSolidDatasetInContainer
    \/ CreateContainerInContainer
    \/ DeleteContainer

SpecContainer == Init /\ [][NextContainer]_vars

\* ------------------------------------- one graph saved again and again
\* The operations on a new graph that is only ever saved at one location,
\* DocUrl: each operation's record counts the saves that succeeded before it.
SavesAfter(op) ==
    (IF "saves" \in DOMAIN op THEN op.saves ELSE 0)
       + (IF op.op = "saveSolidDatasetAt" /\ op.ok THEN 1 ELSE 0)

Counted(op, saves) ==
    [op |-> op.op, url |-> op.url, input |-> op.input, before |-> op.before,
     requests |-> op.requests, response |-> op.response, ok |-> op.ok,
     error |-> op.error, ref |-> op.ref, info |-> op.info,
     pendingBefore |-> op.pendingBefore, answers |-> op.answers,
     saves |-> saves]

\* a node that is neither an IRI nor a Local Identifier
BlankNode(id) == [termType |-> "BlankNode", doc |-> <<>>, value |-> id]

\* the triples the application adds: also one about a blank node
TrackedUniverse ==
    QuadUniverse \cup { Quad(BlankNode("b"), Title, Literal("A")) }

AddTracked ==
    /\ \E quad \in TrackedUniverse \ heap[cur].quads :
           LET r == recordAdd(Keep(heap, {cur}), cur, quad)
           IN /\ Cardinality(heap[cur].quads) < MaxQuads
              /\ LogSize(heap[cur]) < MaxLog
              /\ heap' = Compact(r.heap, cur, r.ref)
              /\ cur' = CompactRef(cur, r.ref)
              /\ pending' = IF Change("deletion", quad) \in pending
                            THEN pending \ {Change("deletion", quad)}
                            ELSE pending \cup {Change("addition", quad)}
              /\ lastOp' = Counted(Op("recordAdd", <<>>, cur, Done(r.ref), Null, Null),
                                   SavesAfter(lastOp))
              /\ UNCHANGED remote

RemoveTracked ==
    /\ \E quad \in heap[cur].quads :
           LET r == recordRemove(Keep(heap, {cur}), cur, quad)
           IN /\ LogSize(heap[cur]) < MaxLog
              /\ heap' = Compact(r.heap, cur, r.ref)
              /\ cur' = CompactRef(cur, r.ref)
              /\ pending' = IF Change("addition", quad) \in pending
                            THEN pending \ {Change("addition", quad)}
                            ELSE pending \cup {Change("deletion", quad)}
              /\ lastOp' = Counted(Op("recordRemove", <<>>, cur, Done(r.ref), Null, Null),
                                   SavesAfter(lastOp))
              /\ UNCHANGED remote

SaveAgain ==
    /\ SavesAfter(lastOp) < MaxSaves
    /\ \E response \in SaveResponses(DocUrl) :
           LET r == saveSolidDatasetAt(Keep(heap, {cur}), DocUrl, cur, response)
           IN /\ heap' = Compact(r.heap, cur, r.ref)
              /\ cur' = IF r.ok /\ r.ref # 0 THEN CompactRef(cur, r.ref) ELSE 1
              /\ pending' = IF r.ok THEN {} ELSE pending
              /\ lastOp' = Counted(Op("saveSolidDatasetAt", DocUrl, cur, r, response, Null),
                                   SavesAfter(lastOp))
              /\ UNCHANGED remote

NextRepeat ==
    \/ AddTracked
    \/ RemoveTracked
    \/ SaveAgain

SpecRepeat == Init /\ [][NextRepeat]_vars

\* =============================================================== claims
\* what the claims speak of
SaveAt == lastOp.op = "saveSolidDatasetAt"
sent == lastOp.requests[1]
given == lastOp.before
returned == heap[lastOp.ref]
answered == lastOp.response # Null
failedStatus == answered /\ ~(lastOp.response.status \in 200 .. 299)

HasLocal(quad) ==
    quad.subject.termType = "LocalNode" \/ quad.object.termType = "LocalNode"

\* a node with a Local Identifier read as <base>#name
AtBase(node, base) ==
    IF node.termType = "LocalNode"
    THEN [termType |-> "NamedNode", doc |-> base, value |-> node.value]
    ELSE node

QuadAtBase(quad, base) ==
    [subject |-> AtBase(quad.subject, base), predicate |-> quad.predicate,
     object |-> AtBase(quad.object, base)]

\* the fragment form "#name" is the form relative to the empty base
FragmentForm(quads) == { QuadAtBase(q, <<>>) : q \in quads }

\* the Change Log a dataset carries, empty when it carries none
LogOf(d) == IF d.log = Null THEN [additions |-> <<>>, deletions |-> <<>>] ELSE d.log

ClausesOf(keyword) ==
    { i \in DOMAIN sent.body.statements : sent.body.statements[i].keyword = keyword }

\* C1 as stated: saveSolidDatasetAt(url, graph) sends a PATCH if and only if
\* the graph carries Resource Metadata whose location is url and carries a
\* Change Log; every other graph is sent as a PUT.
C1_PatchIffMetadataAndChangeLog ==
    SaveAt =>
        /\ sent.method \in {"PATCH", "PUT"}
        /\ sent.method = "PATCH" <=>
              /\ given.info # Null
              /\ given.info.sourceIri = lastOp.url
              /\ given.log # Null

\* C1 amended: saveSolidDatasetAt(url, graph) sends a PATCH if and only if the
\* graph carries Resource Metadata whose location is url, whether or not it
\* carries a Change Log; every graph without metadata or with metadata for
\* another location is sent as a PUT.
C1_PatchIffMetadataMatches ==
    SaveAt =>
        /\ sent.method \in {"PATCH", "PUT"}
        /\ sent.url = lastOp.url
        /\ sent.method = "PATCH" <=>
              /\ given.info # Null
              /\ given.info.sourceIri = lastOp.url

\* a fetched graph without a Change Log, saved where it came from, is patched
C1_Witness ==
    /\ SaveAt
    /\ sent.method = "PATCH"
    /\ given.log = Null
    /\ given.info.sourceIri = lastOp.url

\* C2: the body of a PATCH is a deletion clause with exactly the Change Log's
\* deletions followed by an insertion clause with exactly its additions; the
\* deletion clause comes first and a clause is left out exactly when its
\* triple set is empty.
C2_PatchBody ==
    (SaveAt /\ sent.method = "PATCH") =>
        LET body == sent.body.statements
            dels == ClausesOf("DELETE DATA")
            ins == ClausesOf("INSERT DATA")
        IN /\ DOMAIN body = dels \cup ins
           /\ Cardinality(dels) = (IF LogOf(given).deletions = <<>> THEN 0 ELSE 1)
           /\ Cardinality(ins) = (IF LogOf(given).additions = <<>> THEN 0 ELSE 1)
           /\ \A i \in dels :
                 body[i].data.statements
                    = FragmentForm(Range(LogOf(given).deletions))
           /\ \A i \in ins :
                 body[i].data.statements
                    = FragmentForm(Range(LogOf(given).additions))
           /\ \A i \in dels, j \in ins : i < j

\* one triple was removed and one with Local Identifiers added
C2_Witness ==
    /\ SaveAt
    /\ sent.method = "PATCH"
    /\ Len(sent.body.statements) = 2
    /\ \E q \in Range(given.log.additions) : HasLocal(q)

\* C3: the graph given to saveSolidDatasetAt is the same after the call,
\* whether it succeeded or failed (triples, Resource Metadata, Change Log),
\* and on success the returned graph is another object.
C3_InputUnchanged ==
    SaveAt =>
        /\ heap[lastOp.input] = given
        /\ lastOp.ok => (lastOp.ref # 0 /\ lastOp.ref # lastOp.input)

\* a tracked graph with Local Identifiers and recorded changes was saved
C3_Witness ==
    /\ SaveAt
    /\ lastOp.ok
    /\ given.log # Null
    /\ given.log.additions # <<>>
    /\ given.info # Null
    /\ \E q \in given.quads : HasLocal(q)

\* C4: the graph returned by a successful saveSolidDatasetAt(url, graph), in
\* patch and in full-replace mode, carries Resource Metadata with location url
\* that marks it as graph data, and an empty Change Log.
C4_ReturnedMetadata ==
    (SaveAt /\ lastOp.ok) =>
        /\ returned.info # Null
        /\ returned.info.sourceIri = lastOp.url
        /\ returned.info.isRawData = FALSE
        /\ returned.log # Null
        /\ returned.log.additions = <<>>
        /\ returned.log.deletions = <<>>

\* a patch with recorded changes succeeded and the response named another URL
C4_Witness ==
    /\ SaveAt
    /\ lastOp.ok
    /\ sent.method = "PATCH"
    /\ given.log # Null
    /\ given.log.additions # <<>>
    /\ lastOp.response.url # lastOp.url

\* C5: the graph returned by a successful save at L holds no Local
\* Identifier: each one named n reads L#n, in subject and in object position,
\* and every Global Identifier is as it was.
C5_LocalsResolved ==
    (SaveAt /\ lastOp.ok) =>
        /\ \A q \in returned.quads : ~HasLocal(q)
        /\ returned.quads = { QuadAtBase(q, lastOp.url) : q \in given.quads }

\* a graph with a Local Identifier and a Global Identifier was saved
C5_Witness ==
    /\ SaveAt
    /\ lastOp.ok
    /\ \E q \in given.quads : HasLocal(q)
    /\ \E q \in given.quads : ~HasLocal(q)

\* the changes a PATCH carries, and the triples a full body carries
Carried(keyword, kind) ==
    UNION { { [kind |-> kind, quad |-> q] :
                q \in sent.body.statements[i].data.statements } :
            i \in ClausesOf(keyword) }

PendingFragment ==
    { [kind |-> c.kind, quad |-> QuadAtBase(c.quad, <<>>)] : c \in lastOp.pendingBefore }

\* C6: replay-safety.  Along a chain of saves (saveSolidDatasetAt,
\* saveSolidDatasetInContainer), each applied to the graph the previous
\* successful fetch or save returned, every tracked addition and deletion is
\* transmitted by exactly one successful request: a patch carries exactly the
\* mutations made since the previous successful fetch or save, none left out
\* and none sent again, and a full body holds every pending addition and no
\* pending deletion.
C6_ReplaySafety ==
    (lastOp.op \in {"saveSolidDatasetAt", "saveSolidDatasetInContainer"} /\ lastOp.ok) =>
        IF sent.method = "PATCH"
        THEN Carried("DELETE DATA", "deletion") \cup Carried("INSERT DATA", "addition")
                = PendingFragment
        ELSE \A c \in PendingFragment :
                (c.kind = "addition") <=> (c.quad \in sent.body.statements)

\* C7 as stated: a successful getSolidDataset returns a graph that carries
\* Resource Metadata and a Change Log with empty additions and deletions.
C7_FetchedCarriesChangeLog ==
    (lastOp.op = "getSolidDataset" /\ lastOp.ok) =>
        /\ returned.info # Null
        /\ returned.log # Null
        /\ returned.log.additions = <<>>
        /\ returned.log.deletions = <<>>

\* the triples of a fetched body, read against the URL that was requested
FetchedTriples ==
    { [subject |-> IF q.subject.termType = "NamedNode" /\ q.subject.doc = <<>>
                   THEN [q.subject EXCEPT !.doc = lastOp.url] ELSE q.subject,
       predicate |-> q.predicate,
       object |-> IF q.object.termType = "NamedNode" /\ q.object.doc = <<>>
                  THEN [q.object EXCEPT !.doc = lastOp.url] ELSE q.object] :
        q \in lastOp.response.body.statements }

\* C7 amended: a successful getSolidDataset returns a graph that holds the
\* fetched triples and carries Resource Metadata, and carries no Change Log.
C7_FetchedCarriesMetadataOnly ==
    (lastOp.op = "getSolidDataset" /\ lastOp.ok) =>
        /\ returned.info # Null
        /\ returned.info.sourceIri = lastOp.response.url
        /\ returned.quads = FetchedTriples
        /\ returned.log = Null

\* a document with a triple was fetched
C7_Witness ==
    /\ lastOp.op = "getSolidDataset"
    /\ lastOp.ok
    /\ returned.quads # {}

RequestingOps ==
    { "getSolidDataset", "getResourceInfo", "saveSolidDatasetAt",
      "saveSolidDatasetInContainer", "createContainerInContainer",
      "deleteSolidDataset", "deleteContainer" }

\* C8: when the response to getSolidDataset, getResourceInfo,
\* saveSolidDatasetAt, saveSolidDatasetInContainer, createContainerInContainer,
\* deleteSolidDataset or deleteContainer has a non-2xx status, the operation
\* fails with a FetchError that has the response's status code and status
\* text and carries the response, and returns no graph and no metadata.
C8_FetchErrorOnFailure ==
    (lastOp.op \in RequestingOps /\ failedStatus) =>
        /\ ~lastOp.ok
        /\ lastOp.error.name = "FetchError"
        /\ statusCode(lastOp.error) = lastOp.response.status
        /\ statusText(lastOp.error) = lastOp.response.statusText
        /\ lastOp.error.response = lastOp.response
        /\ lastOp.ref = 0
        /\ lastOp.info = Null

\* deleting a dataset was answered with a status that is neither 2xx nor an
\* error class
C8_Witness ==
    /\ lastOp.op = "deleteSolidDataset"
    /\ failedStatus
    /\ lastOp.response.status < 400

\* C9: the error of a saveSolidDatasetAt that was answered without success has
\* the response's status code, and its message embeds the rendering of what
\* was sent: of the Change Log for a patch, of the whole graph for a full
\* replace.
C9_ErrorRendersPayload ==
    (SaveAt /\ failedStatus) =>
        /\ ~lastOp.ok
        /\ statusCode(lastOp.error) = lastOp.response.status
        /\ lastOp.error.message.status = lastOp.response.status
        /\ lastOp.error.message.diagnostics
              = IF sent.method = "PATCH"
                THEN changeLogAsMarkdown([given EXCEPT !.log = LogOf(given)])
                ELSE solidDatasetAsMarkdown([given EXCEPT !.log = LogOf(given)])
        /\ lastOp.error.message.diagnostics.rendering
              = IF sent.method = "PATCH" THEN "changeLog" ELSE "solidDataset"

\* a patch with recorded changes was refused
C9_Witness ==
    /\ SaveAt
    /\ failedStatus
    /\ lastOp.response.status = 403
    /\ sent.method = "PATCH"
    /\ given.log # Null
    /\ given.log.additions # <<>>

\* C10: deleteContainer given a location, or a graph whose metadata location,
\* that does not end in "/" fails without a request; it issues a DELETE only
\* for a location that ends in "/".
C10_DeleteContainerRefusesNonContainer ==
    lastOp.op = "deleteContainer" =>
        /\ lastOp.url[Len(lastOp.url)] # "/" =>
              (~lastOp.ok /\ lastOp.requests = <<>>)
        /\ \A i \in DOMAIN lastOp.requests :
              /\ lastOp.requests[i].method = "DELETE"
              /\ lastOp.requests[i].url = lastOp.url
              /\ lastOp.requests[i].url[Len(lastOp.url)] = "/"
        /\ given # Null => lastOp.url = given.info.sourceIri

\* deleteContainer was given a graph whose location is no container
C10_Witness ==
    /\ lastOp.op = "deleteContainer"
    /\ given # Null
    /\ given.info.sourceIri[Len(given.info.sourceIri)] # "/"
    /\ ~lastOp.ok
    /\ lastOp.requests = <<>>

\* ------------------------------------------------- creating a container
CreateAt == lastOp.op = "createContainerAt"

\* the known non-compliant answer: 409 Conflict with the store's message,
\* white space around it aside
KnownSignature(response) ==
    /\ response.status = 409
    /\ response.statusText = "Conflict"
    /\ trim(response.body) =
         <<"Can't write file: PUT not supported on containers, use POST instead">>

\* the URL createContainerAt works on
CreatedUrl ==
    IF lastOp.url[Len(lastOp.url)] = "/" THEN lastOp.url ELSE lastOp.url \o <<"/">>

\* the requests of the fallback: creating the throwaway child, deleting it,
\* re-reading the container's metadata
ThrowawayPut(i) ==
    /\ lastOp.requests[i].method = "PUT"
    /\ lastOp.requests[i].url = CreatedUrl \o <<".dummy">>

FallbackRequests ==
    { i \in DOMAIN lastOp.requests :
        \/ lastOp.requests[i].url = CreatedUrl \o <<".dummy">>
        \/ i > 1 /\ \E j \in 1 .. i - 1 : ThrowawayPut(j) }

Success(response) == response.status \in 200 .. 299

ContainerGraphReturned ==
    /\ lastOp.ok
    /\ lastOp.ref # 0
    /\ returned.info # Null
    /\ returned.log # Null
    /\ returned.log.additions = <<>>
    /\ returned.log.deletions = <<>>

\* C11 as stated: when the container-creation request is answered with the
\* known signature, createContainerAt runs the throwaway-child fallback, and
\* when the fallback's requests succeed it returns a container graph with
\* Resource Metadata and an empty Change Log.
C11_FallbackReturnsContainer ==
    (CreateAt /\ KnownSignature(lastOp.response)) =>
        /\ \E i \in DOMAIN lastOp.requests : ThrowawayPut(i)
        /\ (\A i \in FallbackRequests : Success(lastOp.answers[i]))
              => ContainerGraphReturned

\* C11 amended: on the known signature createContainerAt does not fail for
\* that response but asks for the container's metadata; it runs the
\* throwaway-child fallback exactly when that request is answered 404 (on a
\* success it fails with an error without a response, on another status with
\* a FetchError for that response, and asks nothing more); when the three
\* requests of the fallback are issued and succeed, it returns an empty
\* container graph with the metadata of the last response and an empty
\* Change Log.
C11_FallbackAfterProbe ==
    (CreateAt /\ KnownSignature(lastOp.response)) =>
        /\ Len(lastOp.requests) >= 2
        /\ lastOp.requests[2].method = "HEAD"
        /\ lastOp.requests[2].url = CreatedUrl
        /\ (lastOp.answers[2].status = 404)
              <=> (\E i \in DOMAIN lastOp.requests : ThrowawayPut(i))
        /\ Success(lastOp.answers[2]) =>
              /\ ~lastOp.ok
              /\ lastOp.error.name = "Error"
              /\ Len(lastOp.requests) = 2
        /\ (~Success(lastOp.answers[2]) /\ lastOp.answers[2].status # 404) =>
              /\ ~lastOp.ok
              /\ lastOp.error.name = "FetchError"
              /\ lastOp.error.response = lastOp.answers[2]
              /\ Len(lastOp.requests) = 2
        /\ (Len(lastOp.requests) = 5
            /\ \A i \in FallbackRequests : Success(lastOp.answers[i])) =>
              /\ FallbackRequests = 3 .. 5
              /\ ContainerGraphReturned
              /\ returned.quads = {}
              /\ returned.info.sourceIri = lastOp.answers[5].url

\* the store's message came with white space around it, the container did
\* not exist, and the three requests of the fallback succeeded
C11_Witness ==
    /\ CreateAt
    /\ KnownSignature(lastOp.response)
    /\ Len(lastOp.response.body) > 1
    /\ Len(lastOp.requests) = 5
    /\ \A i \in 3 .. 5 : Success(lastOp.answers[i])
    /\ lastOp.ok

\* C12: for every non-success response to the container-creation request
\* that is not exactly status 409, status text "Conflict" and the known error
\* body, createContainerAt fails with a FetchError for that response and
\* issues no further request.
C12_FallbackOnlyForSignature ==
    (CreateAt /\ ~Success(lastOp.response) /\ ~KnownSignature(lastOp.response)) =>
        /\ ~lastOp.ok
        /\ lastOp.error.name = "FetchError"
        /\ lastOp.error.response = lastOp.response
        /\ lastOp.error.message.status = lastOp.response.status
        /\ Len(lastOp.requests) = 1
        /\ lastOp.ref = 0

\* a 409 with the known error body arrived without the status text
C12_Witness ==
    /\ CreateAt
    /\ lastOp.response.status = 409
    /\ lastOp.response.statusText # "Conflict"
    /\ lastOp.response.body =
         <<"Can't write file: PUT not supported on containers, use POST instead">>
    /\ ~lastOp.ok

InContainerOps == { "saveSolidDatasetInContainer", "createContainerInContainer" }

\* C13: when saveSolidDatasetInContainer or createContainerInContainer is
\* answered with a 2xx response without a Location header, the operation
\* fails with an error, returns no graph and issues no further request.
C13_MissingLocationIsFatal ==
    (lastOp.op \in InContainerOps /\ answered /\ Success(lastOp.response)
     /\ lastOp.response.location = NoLocation) =>
        /\ ~lastOp.ok
        /\ lastOp.error # Null
        /\ lastOp.ref = 0
        /\ Len(lastOp.requests) = 1
        /\ lastOp.requests[1].method = "POST"

\* a container was created in a container and the answer named no location
C13_Witness ==
    /\ lastOp.op = "createContainerInContainer"
    /\ Success(lastOp.response)
    /\ lastOp.response.location = NoLocation
    /\ ~lastOp.ok

\* the answers that are the fallback's own conditions: the known signature
\* that starts it and the 404 that says the container does not exist yet
FallbackCondition(i) ==
    /\ CreateAt
    /\ \/ i = 1 /\ KnownSignature(lastOp.answers[1])
       \/ i = 2 /\ lastOp.answers[2].status = 404

\* C14: for every request issued by any operation, the requests of the
\* container-creation fallback included (creating the throwaway child,
\* deleting it, re-reading the container's metadata), a non-success response
\* makes the operation fail with a typed error instead of returning a result.
C14_NoFailureSwallowed ==
    \A i \in DOMAIN lastOp.answers :
        (~Success(lastOp.answers[i]) /\ ~FallbackCondition(i)) =>
            /\ ~lastOp.ok
            /\ lastOp.error.name \in {"FetchError", "Error"}
            /\ lastOp.ref = 0

\* C15: once any request of an operation has been answered with a
\* non-success status, the operation issues no further request and the
\* failure surfaces to the caller as an error.
C15_NoRetry ==
    \A i \in DOMAIN lastOp.answers :
        (~Success(lastOp.answers[i]) /\ ~FallbackCondition(i)) =>
            /\ i = Len(lastOp.requests)
            /\ ~lastOp.ok
            /\ lastOp.error.response = lastOp.answers[i]

\* ------------------------------------------------------------ Change Log
\* C17: in every state of a tracked graph, after any sequence of record-add
\* and record-remove operations, no triple is in the Change Log's additions
\* and in its deletions at the same time.
C17_AdditionsDisjointFromDeletions ==
    \A i \in Ids :
        (heap[i] # Free /\ heap[i].log # Null) =>
            Range(heap[i].log.additions) \cap Range(heap[i].log.deletions) = {}

\* the triples the last record-add added, the last record-remove removed
AddedBy(op, h) == h[op.ref].quads \ op.before.quads
RemovedBy(op, h) == op.before.quads \ h[op.ref].quads

\* a triple whose deletion was recorded has been added again
C17_Witness ==
    /\ lastOp.op = "recordAdd"
    /\ given.log # Null
    /\ AddedBy(lastOp, heap) \cap Range(given.log.deletions) # {}
    /\ returned.log.additions = <<>>

\* C18: the Change Log records the net effect only: from an empty Change Log,
\* adding a triple that is not in the baseline and then removing it leaves
\* additions and deletions empty, and removing a baseline triple and then
\* adding it again leaves both empty too.
C18_NetEffectOnly ==
    [][ /\ ( /\ lastOp.op = "recordAdd"
             /\ LogOf(lastOp.before) = EmptyLog
             /\ lastOp'.op = "recordRemove"
             /\ RemovedBy(lastOp', heap') = AddedBy(lastOp, heap) )
           => heap'[cur'].log = EmptyLog
        /\ ( /\ lastOp.op = "recordRemove"
             /\ LogOf(lastOp.before) = EmptyLog
             /\ lastOp'.op = "recordAdd"
             /\ AddedBy(lastOp', heap') = RemovedBy(lastOp, heap) )
           => heap'[cur'].log = EmptyLog ]_vars

\* the one recorded addition has been removed again and the log is empty
C18_Witness ==
    /\ lastOp.op = "recordRemove"
    /\ given.log # Null
    /\ given.log.deletions = <<>>
    /\ Len(given.log.additions) = 1
    /\ RemovedBy(lastOp, heap) = Range(given.log.additions)
    /\ returned.log = EmptyLog

\* ------------------------------------------------- Local Identity Space
\* the graph that was saved, at the location it was saved at, alone in a heap
SavedUnresolved ==
    [i \in Ids |-> IF i = 1 THEN [given EXCEPT !.info = returned.info] ELSE Free]

\* C19: resolving the Local Identifiers of a graph against a location is
\* idempotent: resolving twice against the same location yields the triple
\* set of resolving once (which is what a save returns), and resolving a
\* graph that holds no Local Identifier leaves its triple set as it is.
C19_ResolveIdempotent ==
    (SaveAt /\ lastOp.ok) =>
        LET once == resolveLocalIrisInSolidDataset(SavedUnresolved, 1)
            twice == resolveLocalIrisInSolidDataset(once, 1)
        IN /\ returned.quads = once[1].quads
           /\ twice[1].quads = once[1].quads
           /\ resolveLocalIrisInSolidDataset(heap, lastOp.ref)[lastOp.ref].quads
                 = returned.quads
           /\ (\A q \in given.quads : ~HasLocal(q)) => once[1].quads = given.quads

\* a graph with Local Identifiers in subject and object position was saved
C19_Witness ==
    /\ SaveAt
    /\ lastOp.ok
    /\ \E q \in given.quads :
          q.subject.termType = "LocalNode" /\ q.object.termType = "LocalNode"

SaveOps == { "saveSolidDatasetAt", "saveSolidDatasetInContainer" }

\* C20: Local Identifiers are rewritten only by a successful save and only
\* once: a failed save rewrites no identifier of any graph (the graph given
\* is as it was and there is no other), and a successful save leaves every
\* identifier that is already global as it is, so that identifiers resolved
\* against a location A stay A-based in the graph returned by a save at B.
C20_ResolvedOnlyOnce ==
    lastOp.op \in SaveOps =>
        /\ ~lastOp.ok =>
              /\ lastOp.ref = 0
              /\ heap[lastOp.input] = given
              /\ \A i \in Ids : heap[i] \in {Free, given}
        /\ lastOp.ok =>
              /\ \A q \in given.quads : ~HasLocal(q) => q \in returned.quads
              /\ \A q \in given.quads :
                    HasLocal(q) => QuadAtBase(q, returned.info.sourceIri) \in returned.quads
              /\ Cardinality(returned.quads) <= Cardinality(given.quads)

\* a graph whose identifiers were resolved against one location was saved
\* at another, and they are as they were
C20_Witness ==
    /\ SaveAt
    /\ lastOp.ok
    /\ given.info # Null
    /\ given.info.sourceIri = DocUrl
    /\ lastOp.url = OtherUrl
    /\ \E q \in given.quads :
          /\ q.subject = [termType |-> "NamedNode", doc |-> DocUrl, value |-> "n"]
          /\ q \in returned.quads

\* ------------------------------------------------------- concurrent saves
SavedBy(c) == clients[c].saved # Null

\* what an application had recorded when it saved
DeletedBy(c) == Range(LogOf(clients[c].saved.given).deletions)
InsertedBy(c) == Range(LogOf(clients[c].saved.given).additions)

\* both fetched the resource before either saved, each removed the same
\* stored triple and added one the other did not add
ConflictingSaves ==
    /\ \A c \in Clients : SavedBy(c)
    /\ \E c \in Clients : clients[c].saved.storeBefore = Stored
    /\ DeletedBy(1) \cap DeletedBy(2) \cap Stored # {}
    /\ InsertedBy(1) # {}
    /\ InsertedBy(2) # {}
    /\ InsertedBy(1) \cap InsertedBy(2) = {}

\* C16: when two clients fetch the same resource, each removes the same
\* stored triple and adds a different one, and both save to the same location
\* against a store that rejects a patch whose deletion clause names a triple
\* it no longer holds, then at most one of the two saves succeeds, the other
\* fails with an error, and the store does not hold both replacement values.
C16_OptimisticConcurrency ==
    ConflictingSaves =>
        /\ ~(clients[1].saved.ok /\ clients[2].saved.ok)
        /\ \A c \in Clients :
              ~clients[c].saved.ok =>
                  /\ clients[c].saved.error # Null
                  /\ clients[c].saved.error.name = "FetchError"
                  /\ clients[c].saved.storeBefore # Stored
        /\ \A a \in InsertedBy(1), b \in InsertedBy(2) :
              ~( QuadAtBase(a, DocUrl) \in store /\ QuadAtBase(b, DocUrl) \in store )
        /\ \A c \in Clients :
              clients[c].saved.request.method = "PATCH"

\* both saved conflicting changes: one was accepted and the other refused
C16_Witness ==
    /\ ConflictingSaves
    /\ clients[2].saved.ok
    /\ ~clients[1].saved.ok
    /\ clients[1].saved.error.response.status = 409
    /\ QuadAtBase(CHOOSE a \in InsertedBy(2) : TRUE, DocUrl) \in store

\* ------------------------------------------------- saving what was fetched
\* an unmodified patch without a create-only precondition
EmptyPatch(op) ==
    /\ Len(op.requests) = 1
    /\ op.requests[1].method = "PATCH"
    /\ op.requests[1].url = op.url
    /\ op.requests[1].headers.ifNoneMatch = NoHeader
    /\ op.requests[1].body.statements = <<>>

C29_FullReplaceBody ==
    (SaveAt /\ sent.method # "PATCH") =>
        /\ Len(lastOp.requests) = 1
        /\ sent.method = "PUT"
        /\ sent.url = lastOp.url
        /\ sent.headers.contentType = "text/turtle"
        /\ sent.body.format = "text/turtle"
        /\ sent.body.statements = FragmentForm(given.quads)
        /\ given.info = Null => sent.headers.ifNoneMatch = "*"

\* a new graph holding more than its recorded additions was saved: a fetched
\* triple is no addition once the graph has been saved elsewhere
C29_Witness ==
    /\ SaveAt
    /\ sent.method = "PUT"
    /\ \E q \in given.quads : HasLocal(q)
    /\ \E q \in given.quads : q \notin Range(LogOf(given).additions)

\* ------------------------------------------------- saving over what exists
\* the triples of a graph as the store holds them once saved at DocUrl
AsStored(d) == { QuadAtBase(q, DocUrl) : q \in d.quads }

\* C22: saveSolidDatasetAt overwrites what exists at the URL: a resource
\* already present there does not make the store refuse the save (only a
\* patch whose deletions the store no longer holds is refused), and after a
\* successful save the resource holds the triples of the graph, whether the
\* graph carries matching Resource Metadata or none.
C22_SaveOverwrites ==
    \A c \in Clients :
        SavedBy(c) =>
            /\ ~clients[c].saved.ok =>
                   /\ clients[c].saved.request.method = "PATCH"
                   /\ ~(DeletedBy(c) \subseteq clients[c].saved.storeBefore)
            /\ clients[c].saved.ok =>
                   AsStored(clients[c].saved.given) \subseteq clients[c].saved.storeAfter

\* C23: the graph a successful saveSolidDatasetAt returns holds exactly the
\* triples of the graph it was given, Local Identifiers resolved, whatever the
\* store holds: what another application wrote in between is not in it.
C23_ReturnedIsGiven ==
    \A c \in Clients :
        (SavedBy(c) /\ clients[c].saved.ok) =>
            clients[c].graph.quads = AsStored(clients[c].saved.given)

\* an application saved with success a graph with a Local Identifier while
\* the store held a triple another application had written since the fetch
C23_Witness ==
    \E c \in Clients :
        /\ SavedBy(c)
        /\ clients[c].saved.ok
        /\ \E q \in clients[c].saved.given.quads : HasLocal(q)
        /\ \E q \in clients[c].saved.storeBefore \ Stored :
               /\ q \notin clients[c].graph.quads
               /\ q \in clients[c].saved.storeAfter

\* ------------------------------------------------------ Resource Metadata
\* a response was read into Resource Metadata
GotInfo == lastOp.op = "getResourceInfo" /\ lastOp.ok
Fetched == lastOp.op = "getSolidDataset" /\ lastOp.ok

\* a target that is neither absolute nor relative to the root
RelativeTarget(uri) == ~isAbsoluteUrl(uri) /\ uri[1] # "/"

\* C24: Resource Metadata built from a response records the URL of the
\* response (the URL after redirects), not the URL requested, and the targets
\* of link relations are resolved against the URL of the response.
C24_MetadataOfResponseUrl ==
    /\ Fetched => returned.info.sourceIri = lastOp.response.url
    /\ GotInfo =>
         /\ lastOp.info.sourceIri = lastOp.response.url
         /\ \A i \in DOMAIN lastOp.response.link :
              LET ref == lastOp.response.link[i]
                  listed == Range(lastOp.info.linkedResources[ref.rel])
              IN /\ isAbsoluteUrl(ref.uri) => ref.uri \in listed
                 /\ RelativeTarget(ref.uri) =>
                      /\ DirOf(lastOp.response.url) \o ref.uri \in listed
                      /\ DirOf(lastOp.url) # DirOf(lastOp.response.url)
                           => DirOf(lastOp.url) \o ref.uri \notin listed

\* the metadata of a container was answered from a document elsewhere, with a
\* relative target that is listed as resolved next to that document
C24_Witness ==
    /\ GotInfo
    /\ lastOp.url = ContainerUrl
    /\ lastOp.response.url = OtherUrl
    /\ lastOp.info.sourceIri = OtherUrl
    /\ "acl" \in DOMAIN lastOp.info.linkedResources
    /\ lastOp.info.linkedResources["acl"] = <<Origin \o <<"/", "doc.acl">>>>

\* the content types that declare the serialization of a graph
GraphContentTypes ==
    { "text/turtle", "text/turtle; charset=UTF-8", "application/ld+json" }

\* C25: reading a response into Resource Metadata classifies it as raw data
\* unless it declares a content type that is a graph serialization; a
\* response without a content type is raw data and its content type unknown.
C25_RawUnlessGraphType ==
    GotInfo =>
        LET resource == [quads |-> {}, info |-> lastOp.info, log |-> Null]
        IN /\ ~isRawData(resource) =>
                /\ lastOp.response.contentType # NoHeader
                /\ lastOp.response.contentType \in GraphContentTypes
           /\ lastOp.response.contentType = NoHeader =>
                /\ isRawData(resource)
                /\ getContentType(resource) = Null

\* a successful response without a content type was read as raw data
C25_Witness ==
    /\ GotInfo
    /\ lastOp.response.contentType = NoHeader
    /\ lastOp.info.isRawData

\* C26: getResourceInfo sends exactly one request, a HEAD to the URL it was
\* given, and never a GET.
C26_OneHeadRequest ==
    lastOp.op = "getResourceInfo" =>
        /\ Len(lastOp.requests) = 1
        /\ lastOp.requests[1].method = "HEAD"
        /\ lastOp.requests[1].url = lastOp.url
        /\ \A i \in DOMAIN lastOp.requests : lastOp.requests[i].method # "GET"

\* the metadata of a graph resource was read
C26_Witness ==
    /\ GotInfo
    /\ lastOp.url = DocUrl
    /\ lastOp.response.url = DocUrl
    /\ ~lastOp.info.isRawData
    /\ lastOp.requests[1].body = Null

\* the owners a resource lists, none without metadata from a server
OwnersOf(resource) ==
    IF resource.info = Null THEN <<>>
    ELSE IF "linkedResources" \notin DOMAIN resource.info THEN <<>>
    ELSE IF podOwnerRelation \notin DOMAIN resource.info.linkedResources THEN <<>>
    ELSE resource.info.linkedResources[podOwnerRelation]

\* C27: getPodOwner returns a WebID exactly when the resource has metadata
\* from a server whose podOwner relation lists exactly one target, which is
\* the result; otherwise it returns null; isPodOwner returns null exactly
\* when getPodOwner does, and else whether the owner is the given WebID.
C27_PodOwnerIffOneTarget ==
    lastOp.op = "isPodOwner" =>
        LET owners == OwnersOf(lastOp.before)
        IN /\ lastOp.podOwner # Null <=> Len(owners) = 1
           /\ Len(owners) = 1 =>
                (lastOp.podOwner # Null /\ lastOp.podOwner = owners[1])
           /\ lastOp.result = Null <=> lastOp.podOwner = Null
           /\ lastOp.result # Null =>
                lastOp.result = Boolean(lastOp.podOwner = lastOp.url)

\* a resource that lists one owner was asked about another WebID
C27_Witness ==
    /\ lastOp.op = "isPodOwner"
    /\ lastOp.podOwner # Null
    /\ lastOp.podOwner = OwnerWebId
    /\ lastOp.url = OtherWebId
    /\ lastOp.result = Boolean(FALSE)

\* ------------------------------------------------------ agents of a rule
SetAgentDone == lastOp.op = "setAgent"

SpecialAgents ==
    { acp("PublicAgent"), acp("AuthenticatedAgent"), acp("CreatorAgent") }

\* C28: setAgent(rule, agent) replaces the agents listed one by one by the
\* given agent and keeps the classes of public and authenticated agents:
\* hasPublic and hasAuthenticated of the result are those of the rule given,
\* and the rule given is unchanged.
C28_SetAgentKeepsClasses ==
    SetAgentDone =>
        /\ getAgentAll(returned) = { lastOp.arg } \ SpecialAgents
        /\ hasPublic(returned) = hasPublic(given)
        /\ hasAuthenticated(returned) = hasAuthenticated(given)
        /\ heap[1] = given
        /\ lastOp.ref # 1

\* a rule for another agent and for the public was set to one agent
C28_Witness ==
    /\ SetAgentDone
    /\ lastOp.arg = WebIdMe
    /\ WebIdYou \in getAgentAll(given)
    /\ hasPublic(given)
    /\ ~hasAuthenticated(given)
    /\ getAgentAll(returned) = { WebIdMe }

\* ------------------------------------------------ order of the fallback
\* the requests of the fallback, in the order the claim gives them
FallbackOrder ==
    << [method |-> "HEAD", url |-> CreatedUrl],
       [method |-> "PUT", url |-> CreatedUrl \o <<".dummy">>],
       [method |-> "DELETE", url |-> CreatedUrl \o <<".dummy">>],
       [method |-> "HEAD", url |-> CreatedUrl] >>

\* C30: the fallback of createContainerAt sends its requests in a fixed
\* order, each at most once: a HEAD of the container, a PUT of the child
\* <container>.dummy, a DELETE of that child, a HEAD of the container; the
\* child is not deleted before it is created, nor the container read again
\* before the child is deleted.
C30_FallbackOrder ==
    CreateAt =>
        /\ Len(lastOp.requests) <= 1 + Len(FallbackOrder)
        /\ \A i \in 2 .. Len(lastOp.requests) :
              /\ lastOp.requests[i].method = FallbackOrder[i - 1].method
              /\ lastOp.requests[i].url = FallbackOrder[i - 1].url
        /\ \A i, j \in DOMAIN lastOp.requests :
              ( /\ lastOp.requests[i].method = "DELETE"
                /\ lastOp.requests[j].method = "PUT"
                /\ lastOp.requests[j].url = lastOp.requests[i].url ) => j < i

\* the fallback ran to its end for a URL given without its final slash
C30_Witness ==
    /\ CreateAt
    /\ lastOp.ok
    /\ Len(lastOp.requests) = 5
    /\ lastOp.url # CreatedUrl
    /\ KnownSignature(lastOp.answers[1])


\* the requests createContainerAt sent for the throwaway child
ChildRequests ==
    { i \in DOMAIN lastOp.requests : lastOp.requests[i].url = CreatedUrl \o <<".dummy">> }

\* createContainerAt went into its fallback: the second answer is the one to
\* the metadata read of the container
InFallback == CreateAt /\ KnownSignature(lastOp.answers[1]) /\ Len(lastOp.answers) >= 2

\* C31: in the container-creation fallback the throwaway child is created
\* only if the preceding metadata read of the container was answered 404;
\* when that read succeeds the operation fails with a "Container already
\* exists" error, when it fails with another status the FetchError of the
\* read is the operation's error, and in both cases nothing is sent for the
\* child: no PUT and no DELETE.
C31_ChildOnlyAfter404 ==
    InFallback =>
        /\ ChildRequests # {} => lastOp.answers[2].status = 404
        /\ Success(lastOp.answers[2]) =>
              /\ ~lastOp.ok
              /\ lastOp.error =
                    Error(Message("The Container already exists, and therefore cannot be created again",
                                  CreatedUrl, Null, Null))
              /\ ChildRequests = {}
              /\ Len(lastOp.requests) = 2
        /\ (~Success(lastOp.answers[2]) /\ lastOp.answers[2].status # 404) =>
              /\ ~lastOp.ok
              /\ lastOp.error = getResourceInfo(CreatedUrl, lastOp.answers[2]).error
              /\ ChildRequests = {}
              /\ Len(lastOp.requests) = 2

\* the metadata read of the fallback was refused with a 403
C31_Witness ==
    /\ InFallback
    /\ lastOp.answers[2].status = 403
    /\ ~lastOp.ok
    /\ lastOp.error.name = "FetchError"


\* the store holds the throwaway child once its PUT has succeeded, until a
\* DELETE of it succeeds
ChildStored ==
    \E i \in ChildRequests :
        /\ lastOp.requests[i].method = "PUT"
        /\ Success(lastOp.answers[i])
        /\ ~\E j \in ChildRequests :
              /\ j > i
              /\ lastOp.requests[j].method = "DELETE"
              /\ Success(lastOp.answers[j])

\* C32: whenever createContainerAt returns a container graph through the
\* fallback, the throwaway child it created at <container>.dummy is no
\* longer in the store.
C32_ChildGone ==
    (InFallback /\ lastOp.ok /\ ChildRequests # {}) => ~ChildStored


\* C33: createContainerAt creates a container only at a location that ends
\* with the path separator: every request it sends is for the given URL with
\* a final "/" or for the throwaway child of that, every request for the
\* container itself has a URL ending in "/", and a given URL without the
\* separator is never sent as given.
C33_ContainerUrlEndsWithSlash ==
    CreateAt =>
        /\ lastOp.requests # <<>>
        /\ \A i \in DOMAIN lastOp.requests :
              /\ lastOp.requests[i].url \in {CreatedUrl, CreatedUrl \o <<".dummy">>}
              /\ i \notin ChildRequests =>
                    lastOp.requests[i].url[Len(lastOp.requests[i].url)] = "/"
              /\ lastOp.url[Len(lastOp.url)] # "/" =>
                    lastOp.requests[i].url # lastOp.url
        /\ lastOp.requests[1].method = "PUT"
        /\ lastOp.requests[1].url = CreatedUrl

\* a container was created at a URL given without its final "/"
C33_Witness ==
    /\ CreateAt
    /\ lastOp.url[Len(lastOp.url)] # "/"
    /\ lastOp.ok
    /\ Len(lastOp.requests) = 1
    /\ returned.info.sourceIri = lastOp.url \o <<"/">>


SavedInContainer == lastOp.op = "saveSolidDatasetInContainer" /\ lastOp.ok

\* C34: after a successful saveSolidDatasetInContainer the returned graph
\* carries Resource Metadata whose location is the child location the store
\* chose, holds no Local Identifier (each is resolved against that child
\* location, not against the container's), and any Change Log it carries has
\* empty additions and empty deletions.
C34_SavedInContainerIsBaseline ==
    SavedInContainer =>
        /\ returned.info # Null
        /\ returned.info.sourceIri = lastOp.response.location
        /\ \A q \in returned.quads : ~HasLocal(q)
        /\ returned.quads =
              { QuadAtBase(q, lastOp.response.location) : q \in given.quads }
        /\ returned.log # Null =>
              /\ returned.log.additions = <<>>
              /\ returned.log.deletions = <<>>


\* an operation that stores a child in a container succeeded
ChildRecorded == lastOp.op \in InContainerOps /\ lastOp.ok

\* the location lies in the container the request was sent to
InsideContainer(location) ==
    /\ Len(location) > Len(lastOp.url)
    /\ SubSeq(location, 1, Len(lastOp.url)) = lastOp.url

\* C35: the child location recorded after saveSolidDatasetInContainer and
\* createContainerInContainer is the value of the Location header resolved
\* against the location of the resource that returned it, the container the
\* request was sent to: an absolute value is kept as it is and a relative
\* value yields a location inside that container.
C35_LocationResolvedAgainstContainer ==
    ChildRecorded =>
        /\ returned.info.sourceIri = URL(lastOp.response.location, lastOp.response.url)
        /\ isAbsoluteUrl(lastOp.response.location) =>
              returned.info.sourceIri = lastOp.response.location
        /\ ~isAbsoluteUrl(lastOp.response.location) =>
              InsideContainer(returned.info.sourceIri)


\* ------------------------------------------------------- repeated saves
\* a save of the graph that is only ever saved at DocUrl
SavedAgain == SaveAt /\ "saves" \in DOMAIN lastOp

\* C36: for a brand-new graph saved repeatedly at one location, each save
\* applied to the graph the previous successful save returned, with tracked
\* mutations in between: a save that no successful save precedes is a full
\* replace (PUT) of every triple of the graph, and every later save is a
\* PATCH that carries exactly the mutations made since the previous
\* successful save.
C36_PutThenPatches ==
    SavedAgain =>
        /\ Len(lastOp.requests) = 1
        /\ sent.url = DocUrl
        /\ lastOp.saves = 0 =>
              /\ sent.method = "PUT"
              /\ sent.body.statements = FragmentForm(given.quads)
        /\ lastOp.saves > 0 =>
              /\ sent.method = "PATCH"
              /\ Carried("DELETE DATA", "deletion") \cup Carried("INSERT DATA", "addition")
                    = PendingFragment

\* the third save: two saves succeeded before it, a triple was removed and
\* another added since the second
C36_Witness ==
    /\ SavedAgain
    /\ lastOp.saves = 2
    /\ lastOp.ok
    /\ \E c \in lastOp.pendingBefore : c.kind = "deletion"
    /\ \E c \in lastOp.pendingBefore : c.kind = "addition"
    /\ sent.method = "PATCH"


\* a patch of the graph saved again and again was refused
PatchRefused == SavedAgain /\ failedStatus /\ sent.method = "PATCH"

\* the triples the rendered change list shows as added or deleted: the
\* subject and the predicate a value is listed under, and the value
Listed(kind) ==
    LET changes == lastOp.error.message.diagnostics.changes
    IN UNION { UNION { { <<t, p, changes[t][p][kind][i]>> :
                           i \in DOMAIN changes[t][p][kind] } :
                       p \in DOMAIN changes[t] } :
               t \in DOMAIN changes }

\* the same for the triples that were sent, Local Identifiers read at the
\* graph's location
SentAs(changes) ==
    { <<AtBase(q.subject, given.info.sourceIri), q.predicate,
        internal_getReadableValue(q.object)>> : q \in Range(changes) }

\* C37: the rendering in the error of a refused patch covers exactly what
\* was sent: every triple of the Change Log's deletions and additions that
\* was put in the PATCH body is in the rendered change list under its
\* subject and predicate, also a triple whose subject is a Local Identifier
\* or is not a named node, and no triple is listed that was not sent.
C37_RenderingCoversPatch ==
    PatchRefused =>
        /\ Carried("DELETE DATA", "deletion") \cup Carried("INSERT DATA", "addition")
              = { [kind |-> "deletion", quad |-> QuadAtBase(q, <<>>)] :
                    q \in Range(given.log.deletions) }
                \cup { [kind |-> "addition", quad |-> QuadAtBase(q, <<>>)] :
                         q \in Range(given.log.additions) }
        /\ Listed("deleted") = SentAs(given.log.deletions)
        /\ Listed("added") = SentAs(given.log.additions)


\* ------------------------------------------- special classes of a rule
\* C38: setAgent(rule, agent) changes only the agents listed one by one:
\* every special agent class of the rule is kept, so hasCreator of the
\* result is hasCreator of the rule given, as hasPublic and hasAuthenticated
\* are.
C38_SetAgentKeepsCreator ==
    SetAgentDone =>
        /\ hasCreator(returned) = hasCreator(given)
        /\ hasPublic(returned) = hasPublic(given)
        /\ hasAuthenticated(returned) = hasAuthenticated(given)

====
